---- MODULE Spec2Model ----
(***************************************************************************)
(* A model of the terminal explorer of dwg-extractor (package pkg/tui):    *)
(* the list navigator, the pane navigator, the DXF view with its layers    *)
(* list, entity list, search field and detail pane, the clipboard handler  *)
(* and the asynchronous producer of RunTUI.                                *)
(*                                                                         *)
(* Strings that the code takes apart (layer names, list item texts) are    *)
(* sequences of one-character strings.  A Go pointer that may be nil is a  *)
(* sequence of length 0 (nil) or 1.  Numbers that are only printed         *)
(* (coordinates, colours, heights) are fixed pieces of text.  The focus    *)
(* and the page the toolkit shows (tview's SetFocus and SwitchToPage) are  *)
(* not part of the state; the pane navigator's own currentFocus is.        *)
(***************************************************************************)
EXTENDS Integers, Sequences, FiniteSets, TLC

VARIABLES
    ln,         \* TUIListNavigator: [currentIndex, wrapEnabled]
    list,       \* the tview.List a list navigator drives: [count, currentItem]
    downRun,    \* history: indices reached by the Down presses in a row that
                \* began at index 0 with wrap enabled on an unchanged list
    lastKey,    \* history: the key of the last HandleKeyPress, "" after any
                \* other operation
    data,       \* DXFView.data: <<>> (nil) or <<d>>, d = [Layers |-> ...]
    layers,     \* DXFView.layers, a tview.List: [items, cur]
    entityList, \* DXFView.entityList, a tview.List: [items, cur]
    searchText, \* the text of DXFView.searchInput
    textView,   \* DXFView.textView, the detail pane: the lines written to it
    currentLayerIndex,  \* DXFView.currentLayerIndex
    currentCategory,    \* EnhancedCategorySelector.selection.currentCategory
    selectedIndices,    \* ClipboardHandler.selectedIndices
    format,     \* ClipboardHandler.format
    currentFocus,       \* TUINavigator.currentFocus
    navTrail,   \* history: the last two navigation keys (Forward, Backward,
                \* Help) pressed in a row, each with the focus and the
                \* emptiness of the entity list it met:
                \* <<[key, from, empty], ...>>
    producer,   \* the goroutine of RunTUI: "sleep", "parse" or "done"
    updates,    \* the functions queued by QueueUpdateDraw: the snapshots
                \* their Update calls hold
    updating,   \* the Update call in progress: <<>> or <<[d, pc]>>
    selectedItems,      \* SelectionState.selectedItems: a map from item ids
                \* to booleans, an absent key reading false
    selTrail,   \* history: the last call on the selection state with the
                \* map it met, after the ToggleSelection before it if it is
                \* a ToggleSelection itself: <<[op, ids, before], ...>>
    path,       \* TUIBreadcrumbNavigator.path: the segments, each a sequence
                \* of bytes
    breadcrumb, \* TUIBreadcrumbNavigator.breadcrumb: a sequence of bytes
    fmtIn,      \* the entities a ClipboardFormatter is called with
    fmtTrail,   \* history: the last two calls of the formatter on fmtIn with
                \* what they returned: <<[op, out, err], ...>>
    ret         \* what the last call returned: [err, handled, out], out
                \* being what it handed to the clipboard

listVars == <<ln, list, downRun, lastKey>>
viewVars == <<data, layers, entityList, searchText, textView, currentLayerIndex>>
clipVars == <<selectedIndices, format>>
paneVars == <<currentFocus, navTrail>>
\* What the handlers of the view leave alone.
asyncVars == <<producer, updates, updating>>
fmtVars == <<fmtIn, fmtTrail>>
trackVars == <<selectedItems, selTrail, path, breadcrumb, fmtIn, fmtTrail>>
otherVars == <<ln, list, downRun, lastKey, selectedIndices, format,
               currentFocus, navTrail, producer, updates, updating,
               selectedItems, selTrail, path, breadcrumb, fmtIn, fmtTrail>>
vars == <<ln, list, downRun, lastKey,
          data, layers, entityList, searchText, textView, currentLayerIndex,
          currentCategory, selectedIndices, format, currentFocus, navTrail,
          producer, updates, updating,
          selectedItems, selTrail, path, breadcrumb, fmtIn, fmtTrail, ret>>

\* ------------------------------------------------------------- bounds
\* Largest item count of the list of SpecList.
MaxItems == 7
\* Largest number of layers of a snapshot.
MaxLayers == 2
\* The longest list of ids SelectAll is given.
MaxIds == 2
\* The longest path of the breadcrumb navigator.
MaxPath == 3
\* The longest slice of entities the formatter is given.
MaxEntities == 2

\* ---------------------------------------------------------- constants
\* navigation.go:286 and :303, "pageSize := 5".
pageSize == 5

NoErr == "nil"
Panic == "panic"
RetOut(err, handled, out) == [err |-> err, handled |-> handled, out |-> out]
Ret(err, handled) == RetOut(err, handled, <<>>)
\* A nil dereference or an index out of range ends the process.
Running == ret.err # Panic

\* ------------------------------------------------------------ strings
\* strings.ToLower on the letters that occur in names and queries.
LowerChar(c) ==
    CASE c = "A" -> "a" [] c = "B" -> "b" [] c = "O" -> "o" [] c = "N" -> "n"
      [] OTHER -> c
ToLower(s) == [i \in 1 .. Len(s) |-> LowerChar(s[i])]
HasPrefix(s, p) == Len(s) >= Len(p) /\ SubSeq(s, 1, Len(p)) = p
\* strings.Index: the 0-based position of the first p in s, or -1.
Index(s, p) ==
    LET hits == {i \in 0 .. Len(s) - Len(p) : SubSeq(s, i + 1, i + Len(p)) = p}
    IN IF hits = {} THEN -1 ELSE CHOOSE i \in hits : \A j \in hits : i <= j
Contains(s, p) == Index(s, p) >= 0

\* ----------------------------------------------------- the entity model
\* Entities carry their kind, the name of their layer, their text (a Text's
\* value, a Block's name) and a Block's attributes.
Entity(kind, layer, value, attrs) ==
    [kind |-> kind, Layer |-> layer, Value |-> value, Attributes |-> attrs]
\* The nil entry of a slice of entities.
NilEntity == Entity("nil", <<>>, <<>>, <<>>)
LayerInfo(name, isOn, isFrozen, entities) ==
    [Name |-> name, IsOn |-> isOn, IsFrozen |-> isFrozen, Entities |-> entities]

nameA == <<"A">>
nameB == <<"B">>
\* "A (x": a name that holds the " (" the list item text is cut at.
nameAx == <<"A", " ", "(", "x">>

\* The layers the producer builds snapshots from: between them every kind of
\* entity, two blocks in one layer, texts in two layers.
LayerPool ==
    { LayerInfo(nameA, TRUE, FALSE,
                << Entity("Line", nameA, <<>>, <<>>),
                   Entity("Block", nameA, <<"b">>,
                          << [Tag |-> <<"T">>, Value |-> <<"v">>] >>),
                   Entity("Block", nameA, <<"c">>, <<>>) >>),
      LayerInfo(nameB, TRUE, TRUE,
                << Entity("Text", nameB, <<"u">>, <<>>),
                   Entity("Polyline", nameB, <<>>, <<>>) >>),
      LayerInfo(nameAx, FALSE, FALSE,
                << Entity("Text", nameAx, <<"t">>, <<>>),
                   Entity("Circle", nameAx, <<>>, <<>>) >>) }

SeqsUpTo(S, n) == UNION {[1 .. k -> S] : k \in 0 .. n}
\* The snapshots the producer can deliver.
Snapshots == {[Layers |-> ls] : ls \in SeqsUpTo(LayerPool, MaxLayers)}

\* ------------------------------------------------------------ the view
HasData == data # <<>>
Layers == data[1].Layers
NewList == [items |-> <<>>, cur |-> 0]
ItemCount(l) == Len(l.items)
\* tview.List.AddItem: the cursor of a list stays where it is.
AddItems(l, its) == [l EXCEPT !.items = l.items \o its]

\* fmt.Sprintf("%s (Color: %d, %s%s)", Name, Color, onOff, frozen)
LayerText(layer) ==
    layer.Name \o <<" ", "(", "Color, ">>
               \o << IF layer.IsOn THEN "ON" ELSE "OFF" >>
               \o (IF layer.IsFrozen THEN <<" ", "(", "FROZEN", ")">> ELSE <<>>)
               \o <<")">>

\* The item of layer i (0-based): its text and the index its callback holds.
LayerItem(ls, i) == [text |-> LayerText(ls[i + 1]), ref |-> i]

\* updateLayersList: one item per layer, in order.
LayerItems(ls) == [k \in 1 .. Len(ls) |-> LayerItem(ls, k - 1)]

\* The text of an entity in the entity list of showLayerDetails.
EntityText(e) ==
    CASE e.kind = "Line"     -> <<"Line", " ", "(", "x,y) to (x,y)">>
      [] e.kind = "Circle"   -> <<"Circle", " ", "center:(x,y) radius:r">>
      [] e.kind = "Text"     -> <<"Text", ":", " ">> \o e.Value \o <<" ", "at", " ", "(", "x,y)">>
      [] e.kind = "Polyline" -> <<"Polyline", " ", "with n points">>
      [] e.kind = "Block"    -> <<"Block", ":", " ">> \o e.Value \o <<" ", "at", " ", "(", "x,y)">>
      [] OTHER               -> <<"Entity", ":", " ", e.kind>>

BackItem == [text |-> <<"<-", " ", "Back to Layers">>, ref |-> -1]

\* The detail pane after Update and after showLayerDetails.
SummaryLines(d) == << <<"DXF Version">>, <<"Layers", Len(d.Layers)>> >>
LayerLines(layer, n) ==
    << <<"Layer", layer.Name>>, <<"Color">>, <<"Status", layer.IsOn>>,
       <<"Frozen", layer.IsFrozen>>, <<"Line Type">>, <<"Entities", n>> >>

\* The directives of a query.
qOnTrue == <<"o","n",":","t","r","u","e">>
qOnFalse == <<"o","n",":","f","a","l","s","e">>
qFrozenTrue == <<"f","r","o","z","e","n",":","t","r","u","e">>
qFrozenFalse == <<"f","r","o","z","e","n",":","f","a","l","s","e">>

\* The filter with the on:true directive showing the layers that are off.
FilterFunc_OnInverted(query, layer) ==
    CASE HasPrefix(query, qOnTrue) -> ~layer.IsOn
      [] HasPrefix(query, qOnFalse) -> ~layer.IsOn
      [] HasPrefix(query, qFrozenTrue) -> layer.IsFrozen
      [] HasPrefix(query, qFrozenFalse) -> ~layer.IsFrozen
      [] OTHER -> Contains(ToLower(layer.Name), query)

\* The filter with the on:false directive passing the frozen layers too.
FilterFunc_OffOrFrozen(query, layer) ==
    CASE HasPrefix(query, qOnTrue) -> layer.IsOn
      [] HasPrefix(query, qOnFalse) -> ~layer.IsOn \/ layer.IsFrozen
      [] HasPrefix(query, qFrozenTrue) -> layer.IsFrozen
      [] HasPrefix(query, qFrozenFalse) -> ~layer.IsFrozen
      [] OTHER -> Contains(ToLower(layer.Name), query)

\* The filter a query selects, tried in this order (query already lowered).
FilterFunc(query, layer) ==
    CASE HasPrefix(query, qOnTrue) -> layer.IsOn
      [] HasPrefix(query, qOnFalse) -> ~layer.IsOn
      [] HasPrefix(query, qFrozenTrue) -> layer.IsFrozen
      [] HasPrefix(query, qFrozenFalse) -> ~layer.IsFrozen
      [] OTHER -> Contains(ToLower(layer.Name), query)

RECURSIVE FilteredItems(_, _, _)
\* The items of the layers from index i on that pass the query, in order.
FilteredItems(ls, query, i) ==
    IF i >= Len(ls) THEN <<>>
    ELSE (IF FilterFunc(query, ls[i + 1]) THEN <<LayerItem(ls, i)>> ELSE <<>>)
         \o FilteredItems(ls, query, i + 1)

\* FilterLayers on layers ls: the items of the layers list afterwards.
FilterResult(ls, query) ==
    IF query = <<>> THEN LayerItems(ls)
    ELSE FilteredItems(ls, ToLower(query), 0)

\* The queries typed into the search field or passed to FilterLayers: none,
\* a piece of a name, the four directives, one of them with a capital, and
\* one directive followed by another.
Queries ==
    { <<>>, <<"a">>, qOnTrue, qOnFalse, qFrozenTrue, qFrozenFalse,
      <<"O","n",":","t","r","u","e">>, qOnTrue \o qFrozenTrue }

\* ------------------------------------------------- list navigator
ListKeys == {"Down", "Up", "PgDn", "PgUp", "Home", "End"}
OtherKeys == {"Enter", "Tab", "Rune"}
Keys == ListKeys \cup OtherKeys

\* NewTUIListNavigator: wrap off, index 0.
NewTUIListNavigator == [currentIndex |-> 0, wrapEnabled |-> FALSE]

\* tview.List.Clear followed by n AddItem calls, as updateLayersList and
\* FilterLayers do: the widget's own cursor goes back to 0.
Rebuilt(n) == [count |-> n, currentItem |-> 0]

\* SetCurrentIndex with the upper check off by one (index > count).
SetCurrentIndexOn_OffByOne(n, l, index) ==
    IF l.count = 0
    THEN [ln |-> [n EXCEPT !.currentIndex = 0], list |-> l, err |-> NoErr]
    ELSE IF index < 0 \/ index > l.count
    THEN [ln |-> n, list |-> l, err |-> "IndexOutOfRange"]
    ELSE [ln |-> [n EXCEPT !.currentIndex = index],
          list |-> [l EXCEPT !.currentItem = index], err |-> NoErr]

\* SetCurrentIndex on navigator n over list l: the navigator, the list and
\* the error afterwards.
SetCurrentIndexOn(n, l, index) ==
    IF l.count = 0
    THEN [ln |-> [n EXCEPT !.currentIndex = 0], list |-> l, err |-> NoErr]
    ELSE IF index < 0 \/ index >= l.count
    THEN [ln |-> n, list |-> l, err |-> "IndexOutOfRange"]
    ELSE [ln |-> [n EXCEPT !.currentIndex = index],
          list |-> [l EXCEPT !.currentItem = index], err |-> NoErr]

\* moveDown that wraps only past the end (next > count).
moveDown_LateWrap(n, l) ==
    IF l.count = 0 THEN [ln |-> n, list |-> l, handled |-> FALSE]
    ELSE LET next == n.currentIndex + 1
             newIndex == IF next > l.count
                         THEN (IF n.wrapEnabled THEN 0 ELSE l.count - 1)
                         ELSE next
             r == SetCurrentIndexOn(n, l, newIndex)
         IN [ln |-> r.ln, list |-> r.list, handled |-> TRUE]

\* moveDown: one step down, wrapping or clamping at the end.  The error of
\* SetCurrentIndex is dropped and the key is reported as handled.
moveDown(n, l) ==
    IF l.count = 0 THEN [ln |-> n, list |-> l, handled |-> FALSE]
    ELSE LET next == n.currentIndex + 1
             newIndex == IF next >= l.count
                         THEN (IF n.wrapEnabled THEN 0 ELSE l.count - 1)
                         ELSE next
             r == SetCurrentIndexOn(n, l, newIndex)
         IN [ln |-> r.ln, list |-> r.list, handled |-> TRUE]

\* moveUp that clamps at the top whatever the wrap setting.
moveUp_NoWrap(n, l) ==
    IF l.count = 0 THEN [ln |-> n, list |-> l, handled |-> FALSE]
    ELSE LET prev == n.currentIndex - 1
             newIndex == IF prev < 0 THEN 0 ELSE prev
             r == SetCurrentIndexOn(n, l, newIndex)
         IN [ln |-> r.ln, list |-> r.list, handled |-> TRUE]

moveUp(n, l) ==
    IF l.count = 0 THEN [ln |-> n, list |-> l, handled |-> FALSE]
    ELSE LET prev == n.currentIndex - 1
             newIndex == IF prev < 0
                         THEN (IF n.wrapEnabled THEN l.count - 1 ELSE 0)
                         ELSE prev
             r == SetCurrentIndexOn(n, l, newIndex)
         IN [ln |-> r.ln, list |-> r.list, handled |-> TRUE]

pageDown(n, l) ==
    IF l.count = 0 THEN [ln |-> n, list |-> l, handled |-> FALSE]
    ELSE LET next == n.currentIndex + pageSize
             newIndex == IF next >= l.count THEN l.count - 1 ELSE next
             r == SetCurrentIndexOn(n, l, newIndex)
         IN [ln |-> r.ln, list |-> r.list, handled |-> TRUE]

pageUp(n, l) ==
    IF l.count = 0 THEN [ln |-> n, list |-> l, handled |-> FALSE]
    ELSE LET prev == n.currentIndex - pageSize
             newIndex == IF prev < 0 THEN 0 ELSE prev
             r == SetCurrentIndexOn(n, l, newIndex)
         IN [ln |-> r.ln, list |-> r.list, handled |-> TRUE]

moveToFirst(n, l) ==
    LET r == SetCurrentIndexOn(n, l, 0)
    IN [ln |-> r.ln, list |-> r.list, handled |-> (r.err = NoErr)]

moveToLast(n, l) ==
    IF l.count = 0 THEN [ln |-> n, list |-> l, handled |-> FALSE]
    ELSE LET r == SetCurrentIndexOn(n, l, l.count - 1)
         IN [ln |-> r.ln, list |-> r.list, handled |-> (r.err = NoErr)]

\* HandleKeyPress without the early return on an empty list.
ListKeyResult_NoEmptyCheck(n, l, key) ==
    CASE key = "Down" -> moveDown(n, l)
      [] key = "Up"   -> moveUp(n, l)
      [] key = "PgDn" -> pageDown(n, l)
      [] key = "PgUp" -> pageUp(n, l)
      [] key = "Home" -> moveToFirst(n, l)
      [] key = "End"  -> moveToLast(n, l)
      [] OTHER        -> [ln |-> n, list |-> l, handled |-> FALSE]

\* HandleKeyPress of the list navigator, as a function of the key.
ListKeyResult(n, l, key) ==
    IF l.count = 0 THEN [ln |-> n, list |-> l, handled |-> FALSE]
    ELSE CASE key = "Down" -> moveDown(n, l)
           [] key = "Up"   -> moveUp(n, l)
           [] key = "PgDn" -> pageDown(n, l)
           [] key = "PgUp" -> pageUp(n, l)
           [] key = "Home" -> moveToFirst(n, l)
           [] key = "End"  -> moveToLast(n, l)
           [] OTHER        -> [ln |-> n, list |-> l, handled |-> FALSE]

\* The run of Down presses after one more key: a run starts at index 0 with
\* wrap enabled, grows with each Down and ends once it is as long as the list.
RunAfter(key, r) ==
    LET base == IF Len(downRun) < list.count THEN downRun ELSE <<>>
    IN IF key = "Down" /\ list.count > 0 /\ ln.wrapEnabled
          /\ (base # <<>> \/ ln.currentIndex = 0)
       THEN Append(base, r.ln.currentIndex)
       ELSE <<>>

\* --- the operations of ListNavigator
SetCurrentIndex(index) ==
    LET r == SetCurrentIndexOn(ln, list, index)
    IN /\ ln' = r.ln
       /\ list' = r.list
       /\ ret' = Ret(r.err, FALSE)
       /\ downRun' = <<>>
       /\ lastKey' = ""
       /\ UNCHANGED <<viewVars, currentCategory, clipVars, paneVars, asyncVars, trackVars>>

SetWrapNavigation(wrap) ==
    /\ ln' = [ln EXCEPT !.wrapEnabled = wrap]
    /\ ret' = Ret(NoErr, FALSE)
    /\ downRun' = <<>>
    /\ lastKey' = ""
    /\ UNCHANGED list
    /\ UNCHANGED <<viewVars, currentCategory, clipVars, paneVars, asyncVars, trackVars>>

HandleKeyPress(key) ==
    LET r == ListKeyResult(ln, list, key)
    IN /\ ln' = r.ln
       /\ list' = r.list
       /\ ret' = Ret(NoErr, r.handled)
       /\ downRun' = RunAfter(key, r)
       /\ lastKey' = key
       /\ UNCHANGED <<viewVars, currentCategory, clipVars, paneVars, asyncVars, trackVars>>

\* The view rebuilds the list (a filter, a category, a new dataset): the item
\* count changes and the navigator is not told.
Reproject(n) ==
    /\ list' = Rebuilt(n)
    /\ ret' = Ret(NoErr, FALSE)
    /\ downRun' = <<>>
    /\ lastKey' = ""
    /\ UNCHANGED ln
    /\ UNCHANGED <<viewVars, currentCategory, clipVars, paneVars, asyncVars, trackVars>>

\* ------------------------------------------------------ selection state
\* The item ids the calls are given.
ItemIDs == {"item1", "item2", "item3"}
\* The lists of ids SelectAll is given, an id twice among them.
IdLists == SeqsUpTo(ItemIDs, MaxIds)
Range(f) == {f[i] : i \in DOMAIN f}

\* NewSelectionState: a map without keys.
NewSelectionState == [id \in {} |-> FALSE]

\* A read of the map: false for a key it does not hold.
IsSelected(m, id) == id \in DOMAIN m /\ m[id]

\* A ToggleSelection that writes true whatever it read.
Flipped_SetTrue(m, id) ==
    [k \in DOMAIN m \cup {id} |-> IF k = id THEN TRUE ELSE m[k]]

\* s.selectedItems[itemID] = !s.selectedItems[itemID]
Flipped(m, id) ==
    [k \in DOMAIN m \cup {id} |-> IF k = id THEN ~IsSelected(m, id) ELSE m[k]]

\* A SelectAll that starts from a new map.
AllSelected_Replace(m, ids) == [k \in Range(ids) |-> TRUE]

\* The loop of SelectAll: every id of the list written true.
AllSelected(m, ids) ==
    [k \in DOMAIN m \cup Range(ids) |-> IF k \in Range(ids) THEN TRUE ELSE m[k]]

\* GetSelectedCount: the keys that read true, counted.
GetSelectedCount(m) == Cardinality({k \in DOMAIN m : m[k]})

\* GetSelectedItemIDs: the keys that read true, each once, in the order the
\* iteration over the map meets them, which the language leaves open: the
\* slices a call can return.
GetSelectedItemIDs(m) ==
    LET S == {k \in DOMAIN m : m[k]}
    IN {s \in [1 .. Cardinality(S) -> S] :
           \A i, j \in 1 .. Cardinality(S) : s[i] = s[j] => i = j}

\* The history after a call.
SelTrailed(trail, op, ids, before) ==
    LET e == [op |-> op, ids |-> ids, before |-> before]
    IN IF op = "ToggleSelection" /\ trail # <<>>
          /\ trail[Len(trail)].op = "ToggleSelection"
       THEN <<trail[Len(trail)], e>>
       ELSE <<e>>

ToggleSelection(id) ==
    /\ Running
    /\ selectedItems' = Flipped(selectedItems, id)
    /\ selTrail' = SelTrailed(selTrail, "ToggleSelection", <<id>>, selectedItems)
    /\ ret' = Ret(NoErr, FALSE)
    /\ UNCHANGED <<viewVars, currentCategory, clipVars, listVars, paneVars,
                   asyncVars, path, breadcrumb, fmtVars>>

SelectAll(ids) ==
    /\ Running
    /\ selectedItems' = AllSelected(selectedItems, ids)
    /\ selTrail' = SelTrailed(selTrail, "SelectAll", ids, selectedItems)
    /\ ret' = Ret(NoErr, FALSE)
    /\ UNCHANGED <<viewVars, currentCategory, clipVars, listVars, paneVars,
                   asyncVars, path, breadcrumb, fmtVars>>

SelectNone ==
    /\ Running
    /\ selectedItems' = NewSelectionState
    /\ selTrail' = SelTrailed(selTrail, "SelectNone", <<>>, selectedItems)
    /\ ret' = Ret(NoErr, FALSE)
    /\ UNCHANGED <<viewVars, currentCategory, clipVars, listVars, paneVars,
                   asyncVars, path, breadcrumb, fmtVars>>

\* --------------------------------------------------- breadcrumb navigator
\* Segments and the breadcrumb are Go strings: sequences of bytes. The bytes
\* below 0x80 that occur, and the two-byte encodings C3 A9 and C3 89 of a
\* lower-case letter outside ASCII and of its upper-case form.
AsciiBytes == {"l", "a", "L", "A", "1", " ", ">"}
\* The encoding of utf8.RuneError, U+FFFD.
RuneError == <<"EF", "BF", "BD">>
\* The separator of strings.Join.
Separator == <<" ", ">", " ">>

\* The segments NavigateTo is given: "", "la", "L1", "1a" and a segment led
\* by the two-byte letter.
Segments ==
    {<<>>, <<"l", "a">>, <<"L", "1">>, <<"1", "a">>, <<"C3", "A9", "l">>}

\* The rune at the head of a non-empty string and its width in bytes, as
\* utf8.DecodeRuneInString gives them; the rune is held by its encoding. A
\* byte that begins no encoding decodes as RuneError of width 1.
DecodeRune(s) ==
    IF s[1] \in AsciiBytes THEN [r |-> <<s[1]>>, w |-> 1]
    ELSE IF s[1] = "C3" /\ Len(s) >= 2 /\ s[2] \in {"A9", "89"}
         THEN [r |-> <<s[1], s[2]>>, w |-> 2]
         ELSE [r |-> RuneError, w |-> 1]

\* unicode.ToUpper on a rune.
UpperRune(r) ==
    CASE r = <<"l">> -> <<"L">> [] r = <<"a">> -> <<"A">>
      [] r = <<"C3", "A9">> -> <<"C3", "89">>
      [] OTHER -> r

\* strings.Map(unicode.ToUpper, s): rune by rune, a byte that begins no
\* encoding replaced by the encoding of RuneError.
RECURSIVE MapUpper(_)
MapUpper(s) ==
    IF s = <<>> THEN <<>>
    ELSE LET d == DecodeRune(s)
         IN UpperRune(d.r) \o MapUpper(SubSeq(s, d.w + 1, Len(s)))

\* strings.ToUpper: byte by byte on a string of ASCII bytes, strings.Map on
\* any other.
ToUpper(s) ==
    IF \A i \in 1 .. Len(s) : s[i] \in AsciiBytes
    THEN [i \in 1 .. Len(s) |-> UpperRune(<<s[i]>>)[1]]
    ELSE MapUpper(s)

\* strings.Join
RECURSIVE Join(_, _)
Join(parts, sep) ==
    IF parts = <<>> THEN <<>>
    ELSE IF Len(parts) = 1 THEN parts[1]
    ELSE parts[1] \o sep \o Join(Tail(parts), sep)

\* strings.ToUpper(p[:1]) + p[1:], p[:1] being the first byte of p; an
\* empty segment stays empty.
Capitalized(p) ==
    IF Len(p) > 0 THEN ToUpper(SubSeq(p, 1, 1)) \o SubSeq(p, 2, Len(p))
    ELSE <<>>

\* updateBreadcrumb: the string it leaves in bn.breadcrumb.
updateBreadcrumb(ps) ==
    IF Len(ps) = 0 THEN <<>>
    ELSE Join([i \in 1 .. Len(ps) |-> Capitalized(ps[i])], Separator)

NavigateTo(step) ==
    /\ Running /\ Len(path) < MaxPath
    /\ path' = Append(path, step)
    /\ breadcrumb' = updateBreadcrumb(path')
    /\ ret' = Ret(NoErr, FALSE)
    /\ UNCHANGED <<viewVars, currentCategory, clipVars, listVars, paneVars,
                   asyncVars, selectedItems, selTrail, fmtVars>>

GetBreadcrumb == breadcrumb
CanGoBack == Len(path) > 0

\* ------------------------------------------------------- initial states
\* NewTUIListNavigator over an empty list.
InitListVars ==
    /\ ln = NewTUIListNavigator
    /\ list = Rebuilt(0)
    /\ downRun = <<>>
    /\ lastKey = ""

\* NewDXFView: no data, empty lists, empty search field and detail pane.
InitView ==
    /\ data = <<>>
    /\ layers = NewList
    /\ entityList = NewList
    /\ searchText = <<>>
    /\ textView = <<>>
    /\ currentLayerIndex = -1

\* NewEnhancedCategorySelector, NewClipboardHandler, NewTUINavigator, and
\* RunTUI before its goroutine has run.
InitRest ==
    /\ currentCategory = ""
    /\ selectedIndices = <<>>
    /\ format = "text"
    /\ currentFocus = "search"
    /\ navTrail = <<>>
    /\ producer = "sleep"
    /\ updates = <<>>
    /\ updating = <<>>
    /\ selectedItems = NewSelectionState
    /\ selTrail = <<>>
    /\ path = <<>>
    /\ breadcrumb = <<>>
    /\ fmtTrail = <<>>
    /\ ret = Ret(NoErr, FALSE)

InitList ==
    /\ InitListVars
    /\ InitView
    /\ InitRest
    /\ fmtIn = <<>>

NextList ==
    \/ \E i \in -1 .. MaxItems : SetCurrentIndex(i)
    \/ \E w \in BOOLEAN : SetWrapNavigation(w)
    \/ \E k \in Keys : HandleKeyPress(k)
    \/ \E n \in 0 .. MaxItems : Reproject(n)

SpecList == InitList /\ [][NextList]_vars

\* ------------------------------------------------ the view's handlers
\* Update: the dataset is replaced, the drill-down index reset, the summary
\* written and the layers list rebuilt; the search text stays.
Update(d) ==
    /\ Running
    /\ data' = <<d>>
    /\ currentLayerIndex' = -1
    /\ textView' = SummaryLines(d)
    /\ layers' = AddItems(NewList, LayerItems(d.Layers))
    /\ ret' = Ret(NoErr, FALSE)
    /\ UNCHANGED <<entityList, searchText>>
    /\ UNCHANGED <<currentCategory, otherVars>>

\* The layers list after FilterLayers(query) on the current data.
Filtered(query) == AddItems(NewList, FilterResult(Layers, query))

\* FilterLayers: nothing without data, else the list is cleared and rebuilt.
FilterLayers(query) ==
    /\ Running
    /\ layers' = IF HasData THEN Filtered(query) ELSE layers
    /\ ret' = Ret(NoErr, FALSE)
    /\ UNCHANGED <<data, entityList, searchText, textView, currentLayerIndex>>
    /\ UNCHANGED <<currentCategory, otherVars>>

\* The search field's text changes (typing, Esc, a rune typed on the layers
\* list): its changed callback runs FilterLayers on the new text.
SetSearchText(query) ==
    /\ Running
    /\ searchText' = query
    /\ layers' = IF HasData THEN Filtered(query) ELSE layers
    /\ ret' = Ret(NoErr, FALSE)
    /\ UNCHANGED <<data, entityList, textView, currentLayerIndex>>
    /\ UNCHANGED <<currentCategory, otherVars>>

\* The layer name ToggleLayerVisibility reads off an item text: the text
\* before the first " (", or the whole text when there is none past column 0.
NameOfText(mainText) ==
    LET idx == Index(mainText, <<" ", "(">>)
    IN IF idx > 0 THEN SubSeq(mainText, 1, idx) ELSE mainText

\* The first layer (1-based) with the name, or 0.
FirstNamed(ls, name) ==
    LET hits == {i \in 1 .. Len(ls) : ls[i].Name = name}
    IN IF hits = {} THEN 0 ELSE CHOOSE i \in hits : \A j \in hits : i <= j

\* The toggle without the check of IsFrozen.
Toggled_IgnoreFrozen(ls, name) ==
    LET i == FirstNamed(ls, name)
    IN IF i = 0 THEN ls
       ELSE [ls EXCEPT ![i].IsOn = ~ls[i].IsOn]

\* The layers after the toggle of the layer named name: a frozen layer keeps
\* its IsOn.
Toggled(ls, name) ==
    LET i == FirstNamed(ls, name)
    IN IF i = 0 \/ ls[i].IsFrozen THEN ls
       ELSE [ls EXCEPT ![i].IsOn = ~ls[i].IsOn]

\* ToggleLayerVisibility(visibleIndex): no effect without data or with an
\* index outside the list; else the toggle, then the list is rebuilt under
\* the search text.
ToggleLayerVisibility(visibleIndex) ==
    /\ Running
    /\ IF ~HasData \/ ItemCount(layers) = 0
          \/ visibleIndex < 0 \/ visibleIndex >= ItemCount(layers)
       THEN UNCHANGED <<data, layers>>
       ELSE LET name == NameOfText(layers.items[visibleIndex + 1].text)
                ls == Toggled(Layers, name)
            IN /\ data' = <<[data[1] EXCEPT !.Layers = ls]>>
               /\ layers' = AddItems(NewList, FilterResult(ls, searchText))
    /\ ret' = Ret(NoErr, FALSE)
    /\ UNCHANGED <<entityList, searchText, textView, currentLayerIndex>>
    /\ UNCHANGED <<currentCategory, otherVars>>

\* showLayerDetails(layerIndex): v.data.Layers is read first, a nil
\* dereference without data; an index outside the layers changes nothing.
showLayerDetails(layerIndex) ==
    IF ~HasData
    THEN /\ ret' = Ret(Panic, FALSE)
         /\ UNCHANGED viewVars
    ELSE IF layerIndex < 0 \/ layerIndex >= Len(Layers)
    THEN /\ ret' = Ret(NoErr, FALSE)
         /\ UNCHANGED viewVars
    ELSE LET layer == Layers[layerIndex + 1]
             items == [k \in 1 .. Len(layer.Entities) |->
                          [text |-> EntityText(layer.Entities[k]), ref |-> k - 1]]
         IN /\ currentLayerIndex' = layerIndex
            /\ entityList' = AddItems(NewList, <<BackItem>> \o items)
            /\ textView' = LayerLines(layer, Len(layer.Entities))
            /\ ret' = Ret(NoErr, FALSE)
            /\ UNCHANGED <<data, layers, searchText>>

\* Enter on the layers list: the row under the cursor is passed on as a
\* layer index.
EnterOnLayers ==
    /\ Running
    /\ IF ItemCount(layers) > 0
       THEN showLayerDetails(layers.cur)
       ELSE ret' = Ret(NoErr, FALSE) /\ UNCHANGED viewVars
    /\ UNCHANGED <<currentCategory, otherVars>>

\* Space or t on the layers list toggles the row under the cursor.
ToggleKeyOnLayers == ToggleLayerVisibility(layers.cur)

\* The toolkit moves the cursor of the layers list (arrow keys, the mouse).
MoveCursor(i) ==
    /\ Running
    /\ i < ItemCount(layers)
    /\ layers' = [layers EXCEPT !.cur = i]
    /\ ret' = Ret(NoErr, FALSE)
    /\ UNCHANGED <<data, entityList, searchText, textView, currentLayerIndex>>
    /\ UNCHANGED <<currentCategory, otherVars>>

\* ------------------------------------------ category and item selectors
RECURSIVE Flatten_LastLayerFirst(_)
\* The entities of all layers, the last layer first.
Flatten_LastLayerFirst(ls) ==
    IF ls = <<>> THEN <<>>
    ELSE Flatten_LastLayerFirst(Tail(ls)) \o ls[1].Entities

RECURSIVE Flatten(_)
\* The entities of all layers, layer after layer.
Flatten(ls) ==
    IF ls = <<>> THEN <<>> ELSE ls[1].Entities \o Flatten(Tail(ls))

\* The entities of one kind, in order.
OfKind(es, kind) ==
    LET IsKind(e) == e.kind = kind
    IN SelectSeq(es, IsKind)

\* The item text selectLayer gives an entity: blocks and polylines fall to
\* the default case.
CategoryText(e) ==
    CASE e.kind = "Line"   -> <<"Line", " ", "(", "x,y) to (x,y)">>
      [] e.kind = "Circle" -> <<"Circle", " ", "center:(x,y) radius:r">>
      [] e.kind = "Text"   -> <<"Text", ":", " ">> \o e.Value \o <<" ", "at", " ", "(", "x,y)">>
      [] OTHER             -> <<"Entity", ":", " ", e.kind>>

\* "  Tag: Value" lines under "Attributes:", none without attributes.
AttributeLines(attrs) ==
    IF attrs = <<>> THEN <<>>
    ELSE << <<"Attributes">> >>
         \o [k \in 1 .. Len(attrs) |-> <<"  ", attrs[k].Tag, attrs[k].Value>>]

\* The lines updateDetailsPane writes for an entity; nothing for a polyline.
DetailLines(e) ==
    CASE e.kind = "Line" ->
           << <<"Line Entity">>, <<"Start Point">>, <<"End Point">>,
              <<"Layer", e.Layer>>, <<"Color">> >>
      [] e.kind = "Circle" ->
           << <<"Circle Entity">>, <<"Center">>, <<"Radius">>,
              <<"Layer", e.Layer>>, <<"Color">> >>
      [] e.kind = "Text" ->
           << <<"Text Entity">>, <<"Value", e.Value>>, <<"Insertion Point">>,
              <<"Height">>, <<"Layer", e.Layer>> >>
      [] e.kind = "Block" ->
           << <<"Block Entity">>, <<"Name", e.Value>>, <<"Insertion Point">>,
              <<"Rotation">>, <<"Scale">>, <<"Layer", e.Layer>> >>
           \o AttributeLines(e.Attributes)
      [] OTHER -> <<>>

\* The detail pane of selectBlockCategory and selectTextCategory.
BlockLines(b) ==
    << <<"Block", b.Value>>, <<"Layer", b.Layer>>, <<"Insertion Point">>,
       <<"Rotation">>, <<"Scale">> >> \o AttributeLines(b.Attributes)
TextLines(t) ==
    << <<"Text", t.Value>>, <<"Layer", t.Layer>>, <<"Insertion Point">>,
       <<"Height">> >>

\* The items a selector puts into the layers list: each holds its position.
CategoryItems(texts) ==
    [k \in 1 .. Len(texts) |-> [text |-> texts[k], ref |-> k - 1]]

\* selectLayer that clears the list before it checks the index.
selectLayer_ClearsFirst(index) ==
    IF index < 0 \/ index >= Len(Layers)
    THEN /\ ret' = Ret("LayerIndexOutOfRange", FALSE)
         /\ layers' = NewList
         /\ UNCHANGED textView
    ELSE LET layer == Layers[index + 1]
             es == layer.Entities
         IN /\ layers' = AddItems(NewList,
                   CategoryItems([k \in 1 .. Len(es) |-> CategoryText(es[k])]))
            /\ textView' = LayerLines(layer, Len(es))
            /\ ret' = Ret(NoErr, FALSE)

\* selectLayer: an index outside the layers is an error; else the layers list
\* is replaced by the layer's entities and the pane by the layer's details.
selectLayer(index) ==
    IF index < 0 \/ index >= Len(Layers)
    THEN /\ ret' = Ret("LayerIndexOutOfRange", FALSE)
         /\ UNCHANGED <<layers, textView>>
    ELSE LET layer == Layers[index + 1]
             es == layer.Entities
         IN /\ layers' = AddItems(NewList,
                   CategoryItems([k \in 1 .. Len(es) |-> CategoryText(es[k])]))
            /\ textView' = LayerLines(layer, Len(es))
            /\ ret' = Ret(NoErr, FALSE)

selectBlockCategory(index) ==
    LET blocks == OfKind(Flatten(Layers), "Block")
    IN /\ layers' = AddItems(NewList,
              CategoryItems([k \in 1 .. Len(blocks) |-> EntityText(blocks[k])]))
       /\ textView' = IF Len(blocks) > 0 /\ index >= 0 /\ index < Len(blocks)
                      THEN BlockLines(blocks[index + 1])
                      ELSE << <<"Blocks Found", Len(blocks)>> >>
       /\ ret' = Ret(NoErr, FALSE)

\* selectTextCategory checks the index against the length only: texts[index]
\* with a negative index is an index out of range, after the list was rebuilt
\* and the pane cleared.
selectTextCategory(index) ==
    LET texts == OfKind(Flatten(Layers), "Text")
    IN /\ layers' = AddItems(NewList,
              CategoryItems([k \in 1 .. Len(texts) |-> EntityText(texts[k])]))
       /\ IF Len(texts) > 0 /\ index < Len(texts)
          THEN IF index < 0
               THEN textView' = <<>> /\ ret' = Ret(Panic, FALSE)
               ELSE /\ textView' = TextLines(texts[index + 1])
                    /\ ret' = Ret(NoErr, FALSE)
          ELSE /\ textView' = << <<"Texts Found", Len(texts)>> >>
               /\ ret' = Ret(NoErr, FALSE)

Categories == {"layer", "block", "text", "circle"}

\* SelectCategory: an error without data; else the category is recorded,
\* also an unknown one, and the category's selector runs.
SelectCategory(categoryType, index) ==
    /\ Running
    /\ IF ~HasData
       THEN /\ ret' = Ret("NoDataAvailable", FALSE)
            /\ UNCHANGED <<layers, textView, currentCategory>>
       ELSE /\ currentCategory' = categoryType
            /\ CASE categoryType = "layer" -> selectLayer(index)
                 [] categoryType = "block" -> selectBlockCategory(index)
                 [] categoryType = "text"  -> selectTextCategory(index)
                 [] OTHER -> /\ ret' = Ret("UnknownCategory", FALSE)
                             /\ UNCHANGED <<layers, textView>>
    /\ UNCHANGED <<data, entityList, searchText, currentLayerIndex>>
    /\ UNCHANGED otherVars

\* The item types with polyline taken for text.
KindOf_PolylineAsText(itemType) ==
    CASE itemType = "line" -> "Line" [] itemType = "circle" -> "Circle"
      [] itemType = "text" -> "Text" [] itemType = "block" -> "Block"
      [] itemType = "polyline" -> "Text"
      [] OTHER -> "none"

\* The entity kind an item type names; an unknown type names none.
KindOf(itemType) ==
    CASE itemType = "line" -> "Line" [] itemType = "circle" -> "Circle"
      [] itemType = "text" -> "Text" [] itemType = "block" -> "Block"
      [] OTHER -> "none"

ItemTypes == {"line", "circle", "text", "block", "polyline"}

\* SelectItem: an error without data or with an index outside the entities
\* of the type; else the entity's details replace the detail pane.
SelectItem(itemType, index) ==
    /\ Running
    /\ IF ~HasData
       THEN ret' = Ret("NoDataAvailable", FALSE) /\ UNCHANGED textView
       ELSE LET entities == OfKind(Flatten(Layers), KindOf(itemType))
            IN IF index < 0 \/ index >= Len(entities)
               THEN ret' = Ret("EntityIndexOutOfRange", FALSE) /\ UNCHANGED textView
               ELSE /\ textView' = DetailLines(entities[index + 1])
                    /\ ret' = Ret(NoErr, FALSE)
    /\ UNCHANGED <<data, layers, entityList, searchText, currentLayerIndex>>
    /\ UNCHANGED <<currentCategory, otherVars>>

Init ==
    /\ InitListVars
    /\ InitView
    /\ InitRest
    /\ fmtIn = <<>>

Next ==
    \/ \E d \in Snapshots : Update(d)
    \/ \E q \in Queries : FilterLayers(q)
    \/ \E q \in Queries : SetSearchText(q)
    \/ \E i \in -1 .. MaxLayers : ToggleLayerVisibility(i)
    \/ ToggleKeyOnLayers
    \/ EnterOnLayers
    \/ \E i \in 0 .. MaxLayers - 1 : MoveCursor(i)

Spec == Init /\ [][Next]_vars

\* The category selector over the view: snapshots arrive, categories are
\* selected, the first row of the list is entered.
NextSelect ==
    \/ \E d \in Snapshots : Update(d)
    \/ \E c \in Categories, i \in -1 .. MaxLayers : SelectCategory(c, i)
    \/ EnterOnLayers

SpecSelect == Init /\ [][NextSelect]_vars

\* The item selector over the view: snapshots arrive, items are selected,
\* the first row of the list is entered.
NextItem ==
    \/ \E d \in Snapshots : Update(d)
    \/ \E t \in ItemTypes, i \in -1 .. MaxLayers : SelectItem(t, i)
    \/ EnterOnLayers

SpecItem == Init /\ [][NextItem]_vars

\* ---------------------------------------------------- clipboard handler
\* "Tag:Value" pairs joined by ", ".
formatAttributes(attrs) ==
    LET Pair(k) == attrs[k].Tag \o <<":">> \o attrs[k].Value
        F[k \in 0 .. Len(attrs)] ==
            IF k = 0 THEN <<>>
            ELSE F[k - 1] \o (IF k > 1 THEN <<", ">> ELSE <<>>) \o Pair(k)
    IN F[Len(attrs)]

\* The line of text an entity is copied as.
FormatEntityForClipboard(e) ==
    CASE e = NilEntity -> <<"Unknown Entity">>
      [] e.kind = "Line" ->
           <<"Line: (x, y) to (x, y), Layer: ">> \o e.Layer \o <<", Color: c">>
      [] e.kind = "Circle" ->
           <<"Circle: Center (x, y), Radius: r, Layer: ">> \o e.Layer
           \o <<", Color: c">>
      [] e.kind = "Text" ->
           <<"Text: ", "\"">> \o e.Value
           \o <<"\"", ", InsertionPoint: (x, y), Height: h, Layer: ">> \o e.Layer
      [] e.kind = "Block" ->
           <<"Block: ">> \o e.Value
           \o <<", InsertionPoint: (x, y), Rotation: r, Scale: (x, y), Layer: ">>
           \o e.Layer
           \o (IF e.Attributes = <<>> THEN <<>>
               ELSE <<", Attributes: [">> \o formatAttributes(e.Attributes)
                    \o <<"]">>)
      [] e.kind = "Polyline" ->
           <<"Polyline: n points, Layer: ">> \o e.Layer
           \o <<", Color: c, Closed: b">>
      [] OTHER -> <<"Entity: ", e.kind, ", Layer: ">> \o e.Layer

FormatMultipleEntitiesForClipboard(es) ==
    [k \in 1 .. Len(es) |-> FormatEntityForClipboard(es[k])]

\* strings.ReplaceAll(s, "\"", "\"\"")
DoubleQuotes(s) ==
    LET F[k \in 0 .. Len(s)] ==
            IF k = 0 THEN <<>>
            ELSE F[k - 1] \o (IF s[k] = "\"" THEN <<"\"", "\"">> ELSE <<s[k]>>)
    IN F[Len(s)]

\* The CSV row of an entity: type, layer, quoted details.  Only a text's
\* value has its quotes doubled, the layer is written as it is.
CSVLine(e) ==
    LET details ==
          CASE e.kind = "Line"   -> <<"(x,y) to (x,y), Color: c">>
            [] e.kind = "Circle" -> <<"Center (x,y), Radius: r, Color: c">>
            [] e.kind = "Text"   ->
                 DoubleQuotes(e.Value) \o <<" at (x,y), Height: h">>
            [] e.kind = "Block"  ->
                 e.Value \o <<" at (x,y), Rotation: r">>
                 \o (IF e.Attributes = <<>> THEN <<>>
                     ELSE <<", Attributes: ">> \o formatAttributes(e.Attributes))
            [] e.kind = "Polyline" -> <<"n points, Color: c, Closed: b">>
            [] OTHER -> <<e.kind>>
        entityType ==
          IF e.kind \in {"Line", "Circle", "Text", "Block", "Polyline"}
          THEN e.kind ELSE "Unknown"
    IN <<entityType, ",">> \o e.Layer \o <<",", "\"">> \o details \o <<"\"">>

\* The entries of a slice that are not nil.
NonNil(es) ==
    LET Is(e) == e # NilEntity
    IN SelectSeq(es, Is)

\* A FormatAsCSV that writes a row for a nil entry too.
FormatAsCSV_RowForNil(es) ==
    << <<"Type,Layer,Details">> >> \o [k \in 1 .. Len(es) |-> CSVLine(es[k])]

\* FormatAsCSV: the header, then one row per entity that is not nil.
FormatAsCSV(es) ==
    << <<"Type,Layer,Details">> >>
    \o [k \in 1 .. Len(NonNil(es)) |-> CSVLine(NonNil(es)[k])]

\* A string as json.Marshal writes it: quoted, a quote inside it escaped.
JSONString(str) ==
    LET F[k \in 0 .. Len(str)] ==
            IF k = 0 THEN <<>>
            ELSE F[k - 1] \o (IF str[k] = "\"" THEN <<"\\", "\"">> ELSE <<str[k]>>)
    IN <<"\"">> \o F[Len(str)] \o <<"\"">>

\* The array of {"tag", "value"} objects of a block's attributes.
JSONAttributes(attrs) ==
    LET F[k \in 0 .. Len(attrs)] ==
            IF k = 0 THEN <<>>
            ELSE F[k - 1] \o (IF k > 1 THEN <<",">> ELSE <<>>)
                 \o <<"{", "tag">> \o JSONString(attrs[k].Tag)
                 \o <<"value">> \o JSONString(attrs[k].Value) \o <<"}">>
    IN <<"[">> \o F[Len(attrs)] \o <<"]">>

\* A JSON object that carries the attributes key for every block.
JSONObject_AttributesAlways(e) ==
    CASE e.kind = "Block" ->
           <<"{", "attributes">> \o JSONAttributes(e.Attributes)
           \o <<"insertionPoint", "layer">> \o JSONString(e.Layer)
           \o <<"name">> \o JSONString(e.Value)
           \o <<"rotation", "scale", "type", "Block", "}">>
      [] OTHER -> <<"{", "layer">> \o JSONString(e.Layer)
                  \o <<"type", e.kind, "}">>

\* The JSON object of an entity, its keys in the order json.Marshal writes
\* the keys of a map (sorted); the numbers are finite and left out.
JSONObject(e) ==
    CASE e.kind = "Line" ->
           <<"{", "color", "endPoint", "layer">> \o JSONString(e.Layer)
           \o <<"startPoint", "type", "Line", "}">>
      [] e.kind = "Circle" ->
           <<"{", "center", "color", "layer">> \o JSONString(e.Layer)
           \o <<"radius", "type", "Circle", "}">>
      [] e.kind = "Text" ->
           <<"{", "height", "insertionPoint", "layer">> \o JSONString(e.Layer)
           \o <<"type", "Text", "value">> \o JSONString(e.Value) \o <<"}">>
      [] e.kind = "Block" ->
           <<"{">>
           \o (IF Len(e.Attributes) > 0
               THEN <<"attributes">> \o JSONAttributes(e.Attributes)
               ELSE <<>>)
           \o <<"insertionPoint", "layer">> \o JSONString(e.Layer)
           \o <<"name">> \o JSONString(e.Value)
           \o <<"rotation", "scale", "type", "Block", "}">>
      [] e.kind = "Polyline" ->
           <<"{", "closed", "color", "layer">> \o JSONString(e.Layer)
           \o <<"pointCount", "type", "Polyline", "}">>
      [] OTHER -> <<"{", "layer">> \o JSONString(e.Layer)
                  \o <<"type", "Unknown", "}">>

\* FormatAsJSON: json.MarshalIndent of the objects of the entries that are
\* not nil: "[]" for none of them, else the brackets around the objects, one
\* line each here.
FormatAsJSON(es) ==
    IF NonNil(es) = <<>> THEN << <<"[]">> >>
    ELSE << <<"[">> >>
         \o [k \in 1 .. Len(NonNil(es)) |-> JSONObject(NonNil(es)[k])]
         \o << <<"]">> >>

\* The entities the formatter is called with: one of each variant, a text
\* and a block whose data hold a double quote, a block without attributes,
\* an entity of no known variant and the nil entry.
FormatPool ==
    { Entity("Line", nameA, <<>>, <<>>),
      Entity("Circle", nameA, <<>>, <<>>),
      Entity("Text", nameB, <<"q", "\"">>, <<>>),
      Entity("Block", nameA, <<"b", "\"">>,
             << [Tag |-> <<"T">>, Value |-> <<"\"", "v">>] >>),
      Entity("Block", nameB, <<"c">>, <<>>),
      Entity("Polyline", nameB, <<>>, <<>>),
      Entity("Other", nameA, <<>>, <<>>),
      NilEntity }
FormatInputs == SeqsUpTo(FormatPool, MaxEntities)

\* The history after a call of the formatter.
Formatted(trail, op, out) ==
    LET e == [op |-> op, out |-> out, err |-> NoErr]
    IN IF trail = <<>> THEN <<e>> ELSE <<trail[Len(trail)], e>>

\* A call of FormatMultipleEntitiesForClipboard, FormatAsCSV or FormatAsJSON
\* on the entities given.
CallFormatter(op) ==
    /\ Running
    /\ LET out == CASE op = "csv"  -> FormatAsCSV(fmtIn)
                    [] op = "json" -> FormatAsJSON(fmtIn)
                    [] OTHER -> FormatMultipleEntitiesForClipboard(fmtIn)
       IN /\ fmtTrail' = Formatted(fmtTrail, op, out)
          /\ ret' = RetOut(NoErr, FALSE, out)
    /\ UNCHANGED <<viewVars, currentCategory, clipVars, listVars, paneVars,
                   asyncVars, selectedItems, selTrail, path, breadcrumb, fmtIn>>

\* The entities at the selected indices, the last selected first.
getSelectedEntities_Reversed(sel) ==
    LET all == Flatten(Layers)
        F[k \in 0 .. Len(sel)] ==
            IF k = 0 THEN <<>>
            ELSE (IF sel[k] >= 0 /\ sel[k] < Len(all)
                  THEN <<all[sel[k] + 1]>> ELSE <<>>) \o F[k - 1]
    IN F[Len(sel)]

\* getSelectedEntities: the entities at the selected indices that lie inside
\* the flattened entities, in selection order.
getSelectedEntities(sel) ==
    LET all == Flatten(Layers)
        F[k \in 0 .. Len(sel)] ==
            IF k = 0 THEN <<>>
            ELSE F[k - 1] \o (IF sel[k] >= 0 /\ sel[k] < Len(all)
                              THEN <<all[sel[k] + 1]>> ELSE <<>>)
    IN F[Len(sel)]

\* AddToSelection on selection sel: a new index is appended.
Added(sel, index) ==
    IF \E k \in 1 .. Len(sel) : sel[k] = index THEN sel ELSE Append(sel, index)

\* A CopySelectedItems that returns nil whatever the clipboard answered.
CopyResult_DropsFailure(sel, ok) ==
    IF ~HasData THEN [err |-> "NoDataAvailable", out |-> <<>>]
    ELSE IF sel = <<>> \/ getSelectedEntities(sel) = <<>>
    THEN [err |-> NoErr, out |-> <<>>]
    ELSE LET entities == getSelectedEntities(sel)
             content == CASE format = "csv"  -> FormatAsCSV(entities)
                          [] format = "json" -> FormatAsJSON(entities)
                          [] OTHER -> FormatMultipleEntitiesForClipboard(entities)
         IN IF ok THEN [err |-> NoErr, out |-> content]
            ELSE [err |-> NoErr, out |-> <<>>]

\* CopySelectedItems with selection sel; ok tells whether the clipboard
\* takes the content.  The error returned and the content written.
CopyResult(sel, ok) ==
    IF ~HasData THEN [err |-> "NoDataAvailable", out |-> <<>>]
    ELSE IF sel = <<>> \/ getSelectedEntities(sel) = <<>>
    THEN [err |-> NoErr, out |-> <<>>]
    ELSE LET entities == getSelectedEntities(sel)
             content == CASE format = "csv"  -> FormatAsCSV(entities)
                          [] format = "json" -> FormatAsJSON(entities)
                          [] OTHER -> FormatMultipleEntitiesForClipboard(entities)
         IN IF ok THEN [err |-> NoErr, out |-> content]
            ELSE [err |-> "ClipboardWriteFailure", out |-> <<>>]

Formats == {"text", "csv", "json", "xml"}
\* The indices offered to the selection: outside the entities, the first
\* entity and the third, which lies in the second layer when the first layer
\* holds two entities.
SelIndices == {-1, 0, 2}

AddToSelection(index) ==
    /\ Running
    /\ selectedIndices' = Added(selectedIndices, index)
    /\ ret' = Ret(NoErr, FALSE)
    /\ UNCHANGED <<viewVars, currentCategory, format, listVars, paneVars, asyncVars, trackVars>>

ClearSelection ==
    /\ Running
    /\ selectedIndices' = <<>>
    /\ ret' = Ret(NoErr, FALSE)
    /\ UNCHANGED <<viewVars, currentCategory, format, listVars, paneVars, asyncVars, trackVars>>

SetFormat(f) ==
    /\ Running
    /\ format' = f
    /\ ret' = Ret(NoErr, FALSE)
    /\ UNCHANGED <<viewVars, currentCategory, selectedIndices, listVars, paneVars, asyncVars, trackVars>>

\* CopySelectedItems over a clipboard that takes the content (ok) or fails.
CopySelectedItemsWith(ok) ==
    /\ Running
    /\ LET r == CopyResult(selectedIndices, ok)
       IN ret' = RetOut(r.err, FALSE, r.out)
    /\ UNCHANGED <<viewVars, currentCategory, clipVars, listVars, paneVars, asyncVars, trackVars>>

CopySelectedItems == \E ok \in BOOLEAN : CopySelectedItemsWith(ok)

CopyKeys == {<<"CtrlC", "Ctrl">>, <<"CtrlC", "None">>, <<"Rune", "None">>,
             <<"Enter", "None">>}

\* The copy key handler: Ctrl+C and every rune copy, after the index 0 was
\* put into an empty selection; the error of the copy is dropped.
CopyKeyPress(key, mod) ==
    /\ Running
    /\ IF (key = "CtrlC" /\ mod = "Ctrl") \/ key = "Rune"
       THEN LET sel == IF selectedIndices = <<>> THEN Added(selectedIndices, 0)
                       ELSE selectedIndices
            IN /\ selectedIndices' = sel
               /\ \E ok \in BOOLEAN :
                     ret' = RetOut(NoErr, TRUE, CopyResult(sel, ok).out)
       ELSE /\ ret' = Ret(NoErr, FALSE)
            /\ UNCHANGED selectedIndices
    /\ UNCHANGED <<viewVars, currentCategory, format, listVars, paneVars, asyncVars, trackVars>>

\* The clipboard handler over the view.
NextCopy ==
    \/ \E d \in Snapshots : Update(d)
    \/ \E i \in SelIndices : AddToSelection(i)
    \/ ClearSelection
    \/ \E f \in Formats : SetFormat(f)
    \/ CopySelectedItems
    \/ \E k \in CopyKeys : CopyKeyPress(k[1], k[2])

SpecCopy == Init /\ [][NextCopy]_vars

\* The session before the first snapshot has arrived: every handler of the
\* view, the selectors and the clipboard handler, and no Update.
NextBoot ==
    \/ \E c \in Categories, i \in -1 .. MaxLayers : SelectCategory(c, i)
    \/ \E t \in ItemTypes, i \in -1 .. MaxLayers : SelectItem(t, i)
    \/ \E i \in SelIndices : AddToSelection(i)
    \/ ClearSelection
    \/ \E f \in Formats : SetFormat(f)
    \/ CopySelectedItems
    \/ \E k \in CopyKeys : CopyKeyPress(k[1], k[2])
    \/ \E q \in Queries : FilterLayers(q)
    \/ \E q \in Queries : SetSearchText(q)
    \/ \E i \in -1 .. MaxLayers : ToggleLayerVisibility(i)
    \/ ToggleKeyOnLayers
    \/ EnterOnLayers

SpecBoot == Init /\ [][NextBoot]_vars

\* ------------------------------------------------------ pane navigator
Panes == {"search", "layers", "entities", "help"}
CyclePanes == {"search", "layers", "entities"}

\* navigateForward that never enters the entity list.
navigateForward_SkipEntities(focus, entityCount) ==
    CASE focus = "search"   -> "layers"
      [] focus = "layers"   -> "search"
      [] focus = "entities" -> "search"
      [] focus = "help"     -> "search"
      [] OTHER              -> "search"

\* navigateForward: the pane the focus moves to.
navigateForward(focus, entityCount) ==
    CASE focus = "search"   -> "layers"
      [] focus = "layers"   -> IF entityCount > 0 THEN "entities" ELSE "search"
      [] focus = "entities" -> "search"
      [] focus = "help"     -> "search"
      [] OTHER              -> "search"

\* navigateBackward that leaves the search field for the layers whatever
\* the entity list holds.
navigateBackward_ToLayers(focus, entityCount) ==
    CASE focus = "search"   -> "layers"
      [] focus = "layers"   -> "search"
      [] focus = "entities" -> "layers"
      [] focus = "help"     -> "search"
      [] OTHER              -> "search"

\* navigateBackward: the pane the focus moves to.
navigateBackward(focus, entityCount) ==
    CASE focus = "search"   -> IF entityCount > 0 THEN "entities" ELSE "layers"
      [] focus = "layers"   -> "search"
      [] focus = "entities" -> "layers"
      [] focus = "help"     -> "search"
      [] OTHER              -> "search"

\* toggleHelp that leaves the help for the layers.
toggleHelp_ToLayers(focus) == IF focus = "help" THEN "layers" ELSE "help"

\* toggleHelp: into the help, or out of it to the search field.
toggleHelp(focus) == IF focus = "help" THEN "search" ELSE "help"

NavKeys == {"Tab", "Backtab", "F1", "Enter"}
Mods == {"None", "Shift", "Ctrl"}
IsForward(key, mod) == key = "Tab" /\ mod # "Shift"
IsBackward(key, mod) == (key = "Tab" /\ mod = "Shift") \/ key = "Backtab"

\* The trail after a navigation key pressed with the focus on from and the
\* entity list empty or not: the last two presses in a row.
Trailed(trail, key, from, empty) ==
    LET t == Append(trail, [key |-> key, from |-> from, empty |-> empty])
    IN IF Len(t) > 2 THEN SubSeq(t, Len(t) - 1, Len(t)) ELSE t

\* HandleNavigation: Tab goes forward, Shift+Tab and Backtab backward, F1
\* toggles the help; these are handled, any other key is not and changes
\* nothing.
HandleNavigation(key, mod) ==
    /\ Running
    /\ LET n == ItemCount(entityList)
       IN CASE IsForward(key, mod) ->
                 /\ currentFocus' = navigateForward(currentFocus, n)
                 /\ navTrail' = Trailed(navTrail, "Forward", currentFocus, n = 0)
                 /\ ret' = Ret(NoErr, TRUE)
            [] IsBackward(key, mod) ->
                 /\ currentFocus' = navigateBackward(currentFocus, n)
                 /\ navTrail' = Trailed(navTrail, "Backward", currentFocus, n = 0)
                 /\ ret' = Ret(NoErr, TRUE)
            [] key = "F1" ->
                 /\ currentFocus' = toggleHelp(currentFocus)
                 /\ navTrail' = Trailed(navTrail, "Help", currentFocus, n = 0)
                 /\ ret' = Ret(NoErr, TRUE)
            [] OTHER ->
                 /\ ret' = Ret(NoErr, FALSE)
                 /\ navTrail' = <<>>
                 /\ UNCHANGED currentFocus
    /\ UNCHANGED <<viewVars, currentCategory, clipVars, listVars, asyncVars, trackVars>>

FocusTargets == Panes \cup {"status"}

\* SetFocus: a pane becomes the focus, any other target is an error.
SetFocus(focusTarget) ==
    /\ Running
    /\ IF focusTarget \in Panes
       THEN currentFocus' = focusTarget /\ ret' = Ret(NoErr, FALSE)
       ELSE UNCHANGED currentFocus /\ ret' = Ret("InvalidFocusTarget", FALSE)
    /\ navTrail' = <<>>
    /\ UNCHANGED <<viewVars, currentCategory, clipVars, listVars, asyncVars, trackVars>>

\* The pane navigator over the view: snapshots arrive and the first layer is
\* entered, which fills the entity list.
NextPane ==
    \/ \E k \in NavKeys, m \in Mods : HandleNavigation(k, m)
    \/ \E t \in FocusTargets : SetFocus(t)
    \/ \E d \in Snapshots : Update(d)
    \/ EnterOnLayers

SpecPane == Init /\ [][NextPane]_vars

\* ------------------------------------------- the asynchronous producer
\* The function run at once by the goroutine that calls UpdateDXFData.
UpdateRunner_Caller == "producer"

\* The goroutine that runs a function handed to QueueUpdateDraw: the event
\* loop, which also runs the key handlers, one at a time.
UpdateRunner == "loop"

\* The event loop is inside a queued function.
LoopBusy == UpdateRunner = "loop" /\ updating # <<>>

\* A key handler: a step of the event loop.
OnLoop(A) == ~LoopBusy /\ A

\* The goroutine of RunTUI wakes from its sleep and parses.
ProducerWake ==
    /\ Running /\ producer = "sleep"
    /\ producer' = "parse"
    /\ UNCHANGED <<viewVars, currentCategory, clipVars, listVars, paneVars,
                   updates, updating, ret, trackVars>>

\* Conversion or parsing failed: the goroutine ends without a snapshot.
ProducerFails ==
    /\ Running /\ producer = "parse"
    /\ producer' = "done"
    /\ UNCHANGED <<viewVars, currentCategory, clipVars, listVars, paneVars,
                   updates, updating, ret, trackVars>>

\* App.UpdateDXFData called by the goroutine: the Update call is queued.
UpdateDXFData(d) ==
    /\ Running /\ producer = "parse"
    /\ producer' = "done"
    /\ updates' = Append(updates, d)
    /\ UNCHANGED <<viewVars, currentCategory, clipVars, listVars, paneVars,
                   updating, ret, trackVars>>

\* The queued function is taken up and Update entered.
UpdateStart ==
    /\ Running /\ updates # <<>> /\ updating = <<>>
    /\ updating' = <<[d |-> Head(updates), pc |-> "assign"]>>
    /\ updates' = Tail(updates)
    /\ UNCHANGED <<viewVars, currentCategory, clipVars, listVars, paneVars,
                   producer, ret, trackVars>>

\* Update, statement by statement: v.data = data
UpdateAssign ==
    /\ Running /\ updating # <<>> /\ updating[1].pc = "assign"
    /\ data' = <<updating[1].d>>
    /\ updating' = <<[updating[1] EXCEPT !.pc = "reset"]>>
    /\ UNCHANGED <<layers, entityList, searchText, textView, currentLayerIndex,
                   currentCategory, clipVars, listVars, paneVars,
                   producer, updates, ret, trackVars>>

\* v.currentLayerIndex = -1 and the summary written to the detail pane
UpdateReset ==
    /\ Running /\ updating # <<>> /\ updating[1].pc = "reset"
    /\ currentLayerIndex' = -1
    /\ textView' = SummaryLines(data[1])
    /\ updating' = <<[updating[1] EXCEPT !.pc = "rebuild"]>>
    /\ UNCHANGED <<data, layers, entityList, searchText,
                   currentCategory, clipVars, listVars, paneVars,
                   producer, updates, ret, trackVars>>

\* v.updateLayersList() and the return
UpdateRebuild ==
    /\ Running /\ updating # <<>> /\ updating[1].pc = "rebuild"
    /\ layers' = AddItems(NewList, LayerItems(Layers))
    /\ updating' = <<>>
    /\ ret' = Ret(NoErr, FALSE)
    /\ UNCHANGED <<data, entityList, searchText, textView, currentLayerIndex,
                   currentCategory, clipVars, listVars, paneVars,
                   producer, updates, trackVars>>

\* A key handler of the view.
ViewHandler ==
    \/ \E q \in Queries : FilterLayers(q)
    \/ \E q \in Queries : SetSearchText(q)
    \/ \E i \in -1 .. MaxLayers : ToggleLayerVisibility(i)
    \/ EnterOnLayers
    \/ \E i \in 0 .. MaxLayers - 1 : MoveCursor(i)

\* RunTUI: the goroutine beside the event loop with its handlers.
NextAsync ==
    \/ ProducerWake
    \/ ProducerFails
    \/ \E d \in Snapshots : UpdateDXFData(d)
    \/ UpdateStart
    \/ UpdateAssign
    \/ UpdateReset
    \/ UpdateRebuild
    \/ OnLoop(\E q \in Queries : FilterLayers(q))
    \/ OnLoop(\E q \in Queries : SetSearchText(q))
    \/ OnLoop(\E i \in -1 .. MaxLayers : ToggleLayerVisibility(i))
    \/ OnLoop(EnterOnLayers)
    \/ OnLoop(\E i \in 0 .. MaxLayers - 1 : MoveCursor(i))

SpecAsync == Init /\ [][NextAsync]_vars

\* ------------------------------------------- specifications of the trackers
\* The selection state under its three writers.
NextSelection ==
    \/ \E id \in ItemIDs : ToggleSelection(id)
    \/ \E ids \in IdLists : SelectAll(ids)
    \/ SelectNone

SpecSelection == Init /\ [][NextSelection]_vars

\* The breadcrumb navigator under NavigateTo, its one writer.
NextCrumb == \E step \in Segments : NavigateTo(step)

SpecCrumb == Init /\ [][NextCrumb]_vars

\* The formatter called on a slice of entities, any slice up to the bound.
InitFormat ==
    /\ InitListVars
    /\ InitView
    /\ InitRest
    /\ fmtIn \in FormatInputs

NextFormat == \E op \in {"text", "csv", "json"} : CallFormatter(op)

SpecFormat == InitFormat /\ [][NextFormat]_vars

\* ------------------------------------------------------------ claims
Min(a, b) == IF a < b THEN a ELSE b
Max(a, b) == IF a > b THEN a ELSE b
InRange == list.count > 0 /\ ln.currentIndex \in 0 .. list.count - 1

\* C1: from the initial focus search on, Tab moves the focus search->layers,
\* layers->entities when the entity list has an item and layers->search when
\* it has none, entities->search, help->search; Shift+Tab and Backtab move it
\* search->entities when the entity list has an item and search->layers when
\* it has none, layers->search, entities->layers, help->search; both keys are
\* reported as handled.
C1_CycleTable ==
    [][\A k \in NavKeys, m \in Mods :
        HandleNavigation(k, m) =>
          LET some == ItemCount(entityList) > 0
          IN /\ IsForward(k, m) =>
                  /\ ret'.handled
                  /\ currentFocus = "search" => currentFocus' = "layers"
                  /\ (currentFocus = "layers" /\ some) => currentFocus' = "entities"
                  /\ (currentFocus = "layers" /\ ~some) => currentFocus' = "search"
                  /\ currentFocus = "entities" => currentFocus' = "search"
                  /\ currentFocus = "help" => currentFocus' = "search"
             /\ IsBackward(k, m) =>
                  /\ ret'.handled
                  /\ (currentFocus = "search" /\ some) => currentFocus' = "entities"
                  /\ (currentFocus = "search" /\ ~some) => currentFocus' = "layers"
                  /\ currentFocus = "layers" => currentFocus' = "search"
                  /\ currentFocus = "entities" => currentFocus' = "layers"
                  /\ currentFocus = "help" => currentFocus' = "search"]_vars

\* C1 witness: Tab was pressed on the layers pane over a filled entity list
\* and the focus stands on the entity list.
C1_Witness ==
    /\ navTrail # <<>>
    /\ navTrail[Len(navTrail)] =
          [key |-> "Forward", from |-> "layers", empty |-> FALSE]
    /\ currentFocus = "entities" /\ ret.handled

\* Two cycle keys in a row, one Forward and one Backward in either order,
\* the first pressed on a cycle pane, the entity list as empty at the second
\* as at the first.
RoundTrip ==
    /\ Len(navTrail) = 2
    /\ {navTrail[1].key, navTrail[2].key} = {"Forward", "Backward"}
    /\ navTrail[1].from \in CyclePanes
    /\ navTrail[1].empty = navTrail[2].empty

\* C2 as stated: for every focus in {search, layers, entities} and an entity
\* list that is empty or not, Forward then Backward and Backward then Forward
\* both end on the focus they began on.
C2_ExactInverse == RoundTrip => currentFocus = navTrail[1].from

\* C2 amended: the round trip ends on the focus it began on, except when it
\* begins on the entities pane while the entity list is empty.
C2_InverseButEmptyEntities ==
    (RoundTrip /\ ~(navTrail[1].from = "entities" /\ navTrail[1].empty))
        => currentFocus = navTrail[1].from

\* C2 witness: Backward then Forward begun on the search field over a filled
\* entity list, passing the entities pane, is back on the search field.
C2_Witness ==
    /\ RoundTrip /\ navTrail[1] = [key |-> "Backward", from |-> "search", empty |-> FALSE]
    /\ navTrail[2].from = "entities"
    /\ currentFocus = "search"

\* The layers' IsFrozen flags, and the IsOn flags of the frozen ones (none
\* for a layer that is not frozen).
FrozenFlags(ls) ==
    [k \in 1 .. Len(ls) |->
        [IsFrozen |-> ls[k].IsFrozen,
         IsOn |-> IF ls[k].IsFrozen THEN <<ls[k].IsOn>> ELSE <<>>]]

C4_NoDataFailFast ==
    [][~HasData =>
        LET Frame == /\ ret'.err # Panic
                     /\ UNCHANGED <<viewVars, currentCategory, clipVars>>
        IN /\ \A c \in Categories, i \in -1 .. MaxLayers :
                SelectCategory(c, i) => (ret'.err = "NoDataAvailable" /\ Frame)
           /\ \A t \in ItemTypes, i \in -1 .. MaxLayers :
                SelectItem(t, i) => (ret'.err = "NoDataAvailable" /\ Frame)
           /\ CopySelectedItems => (ret'.err = "NoDataAvailable" /\ Frame)
           /\ \A k \in CopyKeys : CopyKeyPress(k[1], k[2]) => Frame
           /\ \A q \in Queries : FilterLayers(q) => Frame
           /\ \A i \in -1 .. MaxLayers : ToggleLayerVisibility(i) => Frame]_vars

\* The layers list shows layers of the dataset, in order, each item with the
\* text and the index of its layer.
Coherent ==
    /\ \A k \in 1 .. ItemCount(layers) :
          /\ layers.items[k].ref \in 0 .. Len(Layers) - 1
          /\ layers.items[k] = LayerItem(Layers, layers.items[k].ref)
    /\ \A j, k \in 1 .. ItemCount(layers) :
          j < k => layers.items[j].ref < layers.items[k].ref

\* C5: the snapshot of the producer is put in place by one Update call that
\* no key handler interleaves with: a handler runs only while no Update call
\* is in progress and meets either no dataset or a dataset whose summary is
\* written and whose layers the layers list shows; when the Update call
\* returns, the dataset is the producer's, the layers list holds one item
\* per layer, in order, and the current layer index is -1.
C5_AtomicReplace ==
    [][/\ ViewHandler =>
            /\ updating = <<>>
            /\ HasData => (textView # <<>> /\ Coherent)
       /\ UpdateRebuild =>
            /\ data' = <<updating[1].d>>
            /\ layers'.items = LayerItems(updating[1].d.Layers)
            /\ currentLayerIndex' = -1]_vars

\* C5 witness: the producer has ended and its Update call returned; a search
\* text is set, the list shows both layers and the second one was entered.
C5_Witness ==
    /\ producer = "done" /\ updates = <<>> /\ updating = <<>>
    /\ HasData /\ Len(Layers) = 2 /\ ItemCount(layers) = 2
    /\ searchText # <<>> /\ currentLayerIndex = 1

\* The refs of the items of a list, in order.
Refs(items) == [k \in 1 .. Len(items) |-> items[k].ref]

\* The layers list shows exactly the layers (0-based indices) of the set
\* shown, in their order, each with the item of its layer.
ShowsExactly(l, ls, shown) ==
    /\ {l.items[k].ref : k \in 1 .. ItemCount(l)} = shown
    /\ \A j, k \in 1 .. ItemCount(l) : j < k => l.items[j].ref < l.items[k].ref
    /\ \A k \in 1 .. ItemCount(l) : l.items[k] = LayerItem(ls, l.items[k].ref)

\* The rule of a query as C11 words it, the directives read off q as typed.
RuleAsTyped(q, layer) ==
    IF q = <<>> THEN TRUE
    ELSE IF HasPrefix(q, qOnTrue) THEN layer.IsOn
    ELSE IF HasPrefix(q, qOnFalse) THEN ~layer.IsOn
    ELSE IF HasPrefix(q, qFrozenTrue) THEN layer.IsFrozen
    ELSE IF HasPrefix(q, qFrozenFalse) THEN ~layer.IsFrozen
    ELSE Contains(ToLower(layer.Name), ToLower(q))

\* The same rule with the directives recognised ignoring case.
RuleIgnoringCase(q, layer) == RuleAsTyped(ToLower(q), layer)

\* A FilterLayers(q) call on a loaded dataset, made directly or by the
\* search field when its text becomes q.
FilterStep(q) == HasData /\ (FilterLayers(q) \/ SetSearchText(q))

\* C11 as stated: FilterLayers(q) shows exactly the layers that satisfy the
\* one rule of q, in their order: every layer for the empty q, the layers
\* that are on / off for a q beginning with on:true / on:false, the layers
\* that are frozen / not frozen for a q beginning with frozen:true /
\* frozen:false, and for any other q the layers whose name contains q
\* ignoring case.
C11_FilterRule ==
    [][\A q \in Queries :
        FilterStep(q) =>
            ShowsExactly(layers', Layers,
                {i \in 0 .. Len(Layers) - 1 : RuleAsTyped(q, Layers[i + 1])})]_vars

\* C11 amended: the same, the directives on:true, on:false, frozen:true and
\* frozen:false being recognised at the beginning of q ignoring case.
C11_FilterRuleIgnoringCase ==
    [][\A q \in Queries :
        FilterStep(q) =>
            ShowsExactly(layers', Layers,
                {i \in 0 .. Len(Layers) - 1 : RuleIgnoringCase(q, Layers[i + 1])})]_vars

\* C11 witness: under the query on:true followed by frozen:true the list
\* shows both of two layers that are on, the first of them not frozen: the
\* second directive of the query has no part in the rule.
C11_Witness ==
    /\ HasData /\ Len(Layers) = 2 /\ searchText = qOnTrue \o qFrozenTrue
    /\ Layers[1].IsOn /\ ~Layers[1].IsFrozen
    /\ Layers[2].IsOn /\ Layers[2].IsFrozen
    /\ Refs(layers.items) = <<0, 1>>

\* C12: for every dataset the layers FilterLayers("on:true") shows and the
\* layers FilterLayers("on:false") shows are disjoint and together all the
\* layers.
C12_OnOffPartition ==
    HasData =>
        LET on == Refs(FilterResult(Layers, qOnTrue))
            off == Refs(FilterResult(Layers, qOnFalse))
            S(r) == {r[k] : k \in 1 .. Len(r)}
        IN /\ S(on) \cap S(off) = {}
           /\ S(on) \cup S(off) = 0 .. Len(Layers) - 1
           /\ Len(on) + Len(off) = Len(Layers)

\* C12 witness: the list shows, under on:false, the one of two layers that
\* is off; the other is on and frozen.
C12_Witness ==
    /\ HasData /\ Len(Layers) = 2 /\ searchText = qOnFalse
    /\ ~Layers[1].IsOn /\ Layers[2].IsOn /\ Layers[2].IsFrozen
    /\ Refs(layers.items) = <<0>>

\* The last navigation key pressed and what it met.
LastNav == navTrail[Len(navTrail)]

\* C13: F1 pressed on search, layers or entities puts the focus on help; a
\* navigation key pressed on help (F1, Tab, Shift+Tab, Backtab) puts it on
\* search, whichever pane the help was entered from.
C13_HelpToggle ==
    navTrail # <<>> =>
        /\ (LastNav.key = "Help" /\ LastNav.from \in CyclePanes) =>
                currentFocus = "help"
        /\ LastNav.from = "help" => currentFocus = "search"

\* C13 witness: the help was entered with F1 from the entities pane and left
\* with F1, and the focus is on the search field.
C13_Witness ==
    /\ Len(navTrail) = 2
    /\ navTrail[1].key = "Help" /\ navTrail[1].from = "entities"
    /\ navTrail[2].key = "Help" /\ navTrail[2].from = "help"
    /\ currentFocus = "search"

\* C14: SelectCategory returns NoDataAvailable without a dataset,
\* UnknownCategory for every category other than layer, block and text, and
\* LayerIndexOutOfRange for the category layer with an index outside the
\* layers; in each of these failures the layers list and the detail pane
\* stay exactly as they were.
C14_SelectCategoryErrors ==
    [][\A c \in Categories, i \in -1 .. MaxLayers :
        SelectCategory(c, i) =>
          LET Kept == layers' = layers /\ textView' = textView
          IN /\ ~HasData => (ret'.err = "NoDataAvailable" /\ Kept)
             /\ (HasData /\ c \notin {"layer", "block", "text"}) =>
                    (ret'.err = "UnknownCategory" /\ Kept)
             /\ (HasData /\ c = "layer" /\ (i < 0 \/ i >= Len(Layers))) =>
                    (ret'.err = "LayerIndexOutOfRange" /\ Kept)]_vars

\* C14 witness: the category layer was refused for its index while the list
\* shows the two layers of the dataset and the pane its summary.
C14_Witness ==
    /\ ret.err = "LayerIndexOutOfRange" /\ currentCategory = "layer"
    /\ HasData /\ Len(Layers) = 2
    /\ layers.items = LayerItems(Layers) /\ textView = SummaryLines(data[1])

\* The places <<layer, entity>> (1-based) of the entities of a kind.
Places(ls, kind) ==
    UNION { { <<i, j>> : j \in {j \in 1 .. Len(ls[i].Entities) :
                                   ls[i].Entities[j].kind = kind} } :
            i \in 1 .. Len(ls) }

\* Place p comes before place q: an earlier layer, or the same layer and an
\* earlier entity.
Before(p, q) == p[1] < q[1] \/ (p[1] = q[1] /\ p[2] < q[2])

\* The list holds one item per entity of the kind, the k-th item showing the
\* entity that k - 1 of them come before.
OneItemPerEntity(l, ls, kind) ==
    /\ ItemCount(l) = Cardinality(Places(ls, kind))
    /\ \A p \in Places(ls, kind) :
          LET k == Cardinality({q \in Places(ls, kind) : Before(q, p)}) + 1
          IN l.items[k].text = EntityText(ls[p[1]].Entities[p[2]])

\* C15: SelectCategory("block", i) and SelectCategory("text", i) replace the
\* layers list by one item per Block, respectively Text, entity of the whole
\* dataset, ordered by layer and then by entity inside the layer; the item
\* count is the number of these entities.
C15_CategoryFlatten ==
    [][\A i \in -1 .. MaxLayers :
        /\ (HasData /\ SelectCategory("block", i)) =>
              OneItemPerEntity(layers', Layers, "Block")
        /\ (HasData /\ SelectCategory("text", i)) =>
              OneItemPerEntity(layers', Layers, "Text")]_vars

\* C15 witness: the category block over a dataset of two layers with two
\* blocks each: four items.
C15_Witness ==
    /\ currentCategory = "block" /\ ret.err = NoErr
    /\ HasData /\ Len(Layers) = 2
    /\ Cardinality(Places(Layers, "Block")) = 4 /\ ItemCount(layers) = 4

\* The variant of the entity model an item type names.
VariantOf(t) ==
    CASE t = "line" -> "Line" [] t = "circle" -> "Circle" [] t = "text" -> "Text"
      [] t = "block" -> "Block" [] t = "polyline" -> "Polyline"

\* The number of entities of a variant in the dataset.
CountOf(kind) == Cardinality(Places(Layers, kind))

\* C16: SelectItem(type, index) with the index outside the entities of the
\* type fails with EntityIndexOutOfRange and leaves the detail pane as it
\* was; failing or not, it changes neither the layers list, the entity list,
\* the category, the selection nor the dataset.
C16_SelectItemFrame ==
    [][\A t \in ItemTypes, i \in -1 .. MaxLayers :
        SelectItem(t, i) =>
          /\ (HasData /\ (i < 0 \/ i >= CountOf(VariantOf(t)))) =>
                (ret'.err = "EntityIndexOutOfRange" /\ textView' = textView)
          /\ UNCHANGED <<data, layers, entityList, currentCategory,
                         selectedIndices, currentLayerIndex, searchText>>]_vars

\* C16 witness: an item was refused for its index over a dataset with two
\* texts while the pane shows the layer that was entered.
C16_Witness ==
    /\ ret.err = "EntityIndexOutOfRange" /\ HasData /\ currentLayerIndex = 0
    /\ CountOf("Text") = 2
    /\ textView = LayerLines(Layers[1], Len(Layers[1].Entities))

\* The labels of the lines of the detail pane, the heading left out.
Labels(lines) == [k \in 1 .. Len(lines) - 1 |-> lines[k + 1][1]]

\* The fields C17 gives each variant.
FieldsOf(e) ==
    CASE e.kind = "Line" -> <<"Start Point", "End Point", "Layer", "Color">>
      [] e.kind = "Circle" -> <<"Center", "Radius", "Layer", "Color">>
      [] e.kind = "Text" -> <<"Value", "Insertion Point", "Height", "Layer">>
      [] e.kind = "Block" ->
           <<"Name", "Insertion Point", "Rotation", "Scale", "Layer">>
           \o (IF e.Attributes = <<>> THEN <<>>
               ELSE <<"Attributes">> \o [k \in 1 .. Len(e.Attributes) |-> "  "])
      [] e.kind = "Polyline" -> <<"Points", "Layer", "Color", "Closed">>

\* C17: selecting an item of any of the five variants writes the variant's
\* fields to the detail pane in their order: Line - Start Point, End Point,
\* Layer, Color; Circle - Center, Radius, Layer, Color; Text - Value,
\* Insertion Point, Height, Layer; Block - Name, Insertion Point, Rotation,
\* Scale, Layer and, with attributes only, Attributes; Polyline - point
\* count, Layer, Color, Closed.
C17_DetailFields ==
    [][\A t \in ItemTypes, i \in 0 .. MaxLayers :
        (HasData /\ i < CountOf(VariantOf(t)) /\ SelectItem(t, i)) =>
            /\ ret'.err = NoErr
            /\ textView' # <<>>
            /\ \E p \in Places(Layers, VariantOf(t)) :
                  Labels(textView') = FieldsOf(Layers[p[1]].Entities[p[2]])]_vars

\* C17 with the polylines left out: the four other variants.
C17_DetailFieldsButPolyline ==
    [][\A t \in ItemTypes \ {"polyline"}, i \in 0 .. MaxLayers :
        (HasData /\ i < CountOf(VariantOf(t)) /\ SelectItem(t, i)) =>
            /\ ret'.err = NoErr
            /\ textView' # <<>>
            /\ \E p \in Places(Layers, VariantOf(t)) :
                  Labels(textView') = FieldsOf(Layers[p[1]].Entities[p[2]])]_vars

\* What IsSelected, GetSelectedCount and GetSelectedItemIDs show of a map.
Observed(m) ==
    [isSelected |-> [id \in ItemIDs |-> IsSelected(m, id)],
     count |-> GetSelectedCount(m),
     ids |-> GetSelectedItemIDs(m)]

\* The ids a map reads true for.
SelectedSet(m) == {id \in ItemIDs : IsSelected(m, id)}

LastSel == selTrail[Len(selTrail)]

\* C18: ToggleSelection(id) applied twice leaves the selection as it was
\* before the first of the two, as IsSelected, GetSelectedCount and
\* GetSelectedItemIDs show it; one ToggleSelection flips the membership of
\* its id and of no other id.
C18_ToggleTwice ==
    /\ (Len(selTrail) = 2 /\ selTrail[1].ids = selTrail[2].ids) =>
           Observed(selectedItems) = Observed(selTrail[1].before)
    /\ (selTrail # <<>> /\ LastSel.op = "ToggleSelection") =>
           \A id \in ItemIDs :
              IsSelected(selectedItems, id) =
                 (IF id = LastSel.ids[1] THEN ~IsSelected(LastSel.before, id)
                  ELSE IsSelected(LastSel.before, id))

\* C18 witness: an id toggled twice over a map that did not hold it and held
\* another id selected; the map now holds the id, reading false.
C18_Witness ==
    /\ Len(selTrail) = 2 /\ selTrail[1].ids = selTrail[2].ids
    /\ selTrail[1].ids[1] \notin DOMAIN selTrail[1].before
    /\ selectedItems # selTrail[1].before
    /\ GetSelectedCount(selectedItems) = 1

\* C19: after any calls of ToggleSelection, SelectAll and SelectNone,
\* SelectAll(ids) makes the selected set the union of the set selected
\* before and ids, SelectNone makes it empty, and GetSelectedCount is always
\* the number of ids GetSelectedItemIDs returns, which are the ids IsSelected
\* is true for.
C19_SelectAllNone ==
    /\ [](\A s \in GetSelectedItemIDs(selectedItems) :
             /\ Len(s) = GetSelectedCount(selectedItems)
             /\ Range(s) = SelectedSet(selectedItems))
    /\ [][/\ \A ids \in IdLists :
              (SelectAll(ids) =>
                 SelectedSet(selectedItems') =
                    SelectedSet(selectedItems) \cup Range(ids))
          /\ (SelectNone => SelectedSet(selectedItems') = {})]_vars

\* C19 witness: SelectAll with one id twice in its list over a map that held
\* another id selected and a third deselected: two ids are selected.
C19_Witness ==
    /\ selTrail # <<>> /\ LastSel.op = "SelectAll"
    /\ Len(LastSel.ids) = 2 /\ LastSel.ids[1] = LastSel.ids[2]
    /\ GetSelectedCount(LastSel.before) = 1
    /\ \E id \in DOMAIN LastSel.before : ~LastSel.before[id]
    /\ GetSelectedCount(selectedItems) = 2

\* A segment with its leading character upper-cased and the rest unchanged.
UpperLead(seg) ==
    IF seg = <<>> THEN <<>>
    ELSE LET d == DecodeRune(seg)
         IN UpperRune(d.r) \o SubSeq(seg, d.w + 1, Len(seg))

\* The segments in push order, each with its leading character upper-cased,
\* joined by " > ".
Rendered(ps) == Join([i \in 1 .. Len(ps) |-> UpperLead(ps[i])], Separator)

\* The segment begins with a byte below 0x80, or is empty.
AsciiLed(seg) == seg = <<>> \/ seg[1] \in AsciiBytes

\* C20: after NavigateTo(s1), ..., NavigateTo(sn) on a new navigator
\* GetBreadcrumb is the n segments in push order, each with its leading
\* character upper-cased and the rest unchanged, joined by " > " (the empty
\* string for n = 0); CanGoBack is true exactly when n > 0; no step removes
\* or reorders a pushed segment.
C20_Breadcrumb ==
    /\ [](GetBreadcrumb = Rendered(path) /\ (CanGoBack <=> Len(path) > 0))
    /\ [][/\ \A step \in Segments :
              (NavigateTo(step) => path' = Append(path, step))
          /\ Len(path') >= Len(path)
          /\ SubSeq(path', 1, Len(path)) = path]_vars

\* C20 for the paths whose segments begin with a byte below 0x80.
C20_BreadcrumbAsciiLed ==
    /\ []((\A i \in 1 .. Len(path) : AsciiLed(path[i])) =>
             (GetBreadcrumb = Rendered(path) /\ (CanGoBack <=> Len(path) > 0)))
    /\ [][/\ \A step \in Segments :
              (NavigateTo(step) => path' = Append(path, step))
          /\ Len(path') >= Len(path)
          /\ SubSeq(path', 1, Len(path)) = path]_vars

\* The places of all entities.
AllPlaces(ls) ==
    UNION { { <<i, j>> : j \in 1 .. Len(ls[i].Entities) } : i \in 1 .. Len(ls) }

\* The entity at 0-based position i of the entities laid out layer by layer.
EntityAtFlat(i) ==
    LET p == CHOOSE p \in AllPlaces(Layers) :
                 Cardinality({q \in AllPlaces(Layers) : Before(q, p)}) = i
    IN Layers[p[1]].Entities[p[2]]

\* The selected indices that name an entity, resolved in selection order.
Resolved(sel) ==
    LET Valid(i) == i >= 0 /\ i < Cardinality(AllPlaces(Layers))
        valid == SelectSeq(sel, Valid)
    IN [k \in 1 .. Len(valid) |-> EntityAtFlat(valid[k])]

\* A write is attempted: there is a dataset and a selected index names an
\* entity.
WriteAttempted == HasData /\ Resolved(selectedIndices) # <<>>

\* C21: CopySelectedItems hands the clipboard the formatter output for the
\* selected entities, the selected indices resolved against the entities laid
\* out layer by layer, in selection order, in the chosen format: csv - the
\* header row Type,Layer,Details, then the rows of the entities, the first
\* selected first; json - the FormatAsJSON text; any other format - the lines
\* of text.
C21_CopyContent ==
    [][(CopySelectedItemsWith(TRUE) /\ WriteAttempted) =>
          LET es == Resolved(selectedIndices)
          IN /\ ret'.err = NoErr
             /\ format = "csv" =>
                   /\ ret'.out = FormatAsCSV(es)
                   /\ ret'.out[1] = <<"Type,Layer,Details">>
                   /\ ret'.out[2] = CSVLine(es[1])
             /\ format = "json" => ret'.out = FormatAsJSON(es)
             /\ format \notin {"csv", "json"} =>
                   ret'.out = FormatMultipleEntitiesForClipboard(es)]_vars

\* C21 witness: two entities of different layers copied as csv, the later
\* one selected first, beside an index that names no entity.
C21_Witness ==
    /\ HasData /\ Len(Layers) = 2 /\ format = "csv"
    /\ Len(selectedIndices) = 3 /\ selectedIndices[3] = -1
    /\ selectedIndices[1] > selectedIndices[2]
    /\ selectedIndices[1] >= Len(Layers[1].Entities)
    /\ ret.err = NoErr /\ Len(ret.out) = 3
    /\ ret.out[2] = CSVLine(Layers[2].Entities[selectedIndices[1] + 1
                                                - Len(Layers[1].Entities)])

\* C22: when the clipboard write fails CopySelectedItems does not report
\* success: it returns the ClipboardWriteFailure error, and the selection,
\* the format and the dataset stay as they were.
C22_WriteFailure ==
    [][(CopySelectedItemsWith(FALSE) /\ WriteAttempted) =>
          /\ ret'.err = "ClipboardWriteFailure"
          /\ UNCHANGED <<selectedIndices, format, data>>]_vars

\* C22 witness: the write failed with an entity selected and format json.
C22_Witness ==
    /\ ret.err = "ClipboardWriteFailure" /\ format = "json"
    /\ HasData /\ Resolved(selectedIndices) # <<>>

\* The positions of the entries that are not nil, and the k-th of these
\* entries.
Kept(es) == {i \in 1 .. Len(es) : es[i] # NilEntity}
KthKept(es, k) ==
    es[CHOOSE i \in Kept(es) : Cardinality({j \in Kept(es) : j < i}) = k - 1]
LastFmt == fmtTrail[Len(fmtTrail)]
Called(op) == fmtTrail # <<>> /\ LastFmt.op = op

\* C23: for every slice of entities FormatAsCSV yields (number of non-nil
\* entities) + 1 rows: row 0 is Type,Layer,Details and the rows after it are
\* those of the non-nil entities, one each, in input order; a nil entry has no
\* row.
C23_CSVRows ==
    Called("csv") =>
        /\ Len(LastFmt.out) = Cardinality(Kept(fmtIn)) + 1
        /\ LastFmt.out[1] = <<"Type,Layer,Details">>
        /\ \A k \in 1 .. Cardinality(Kept(fmtIn)) :
              LastFmt.out[k + 1] = CSVLine(KthKept(fmtIn, k))

\* C23 witness: FormatAsCSV on a nil entry followed by a text: two rows.
C23_Witness ==
    /\ Called("csv") /\ Len(fmtIn) = 2
    /\ fmtIn[1] = NilEntity /\ fmtIn[2].kind = "Text"
    /\ Len(LastFmt.out) = 2

\* C24: FormatMultipleEntitiesForClipboard returns one line of text per
\* non-nil entity, in input order, and none for a nil entry, so the number of
\* lines is the number of non-nil entities; a second call on the same input
\* returns the same lines.
C24_TextLines ==
    /\ Called("text") =>
          /\ Len(LastFmt.out) = Cardinality(Kept(fmtIn))
          /\ \A k \in 1 .. Cardinality(Kept(fmtIn)) :
                LastFmt.out[k] = FormatEntityForClipboard(KthKept(fmtIn, k))
    /\ (Len(fmtTrail) = 2 /\ fmtTrail[1].op = "text" /\ fmtTrail[2].op = "text")
          => fmtTrail[1].out = fmtTrail[2].out

\* C24 with a line for every entry, nil or not: the line of a nil entry is
\* Unknown Entity.
C24_LinePerEntry ==
    /\ Called("text") =>
          /\ Len(LastFmt.out) = Len(fmtIn)
          /\ \A k \in 1 .. Len(fmtIn) :
                LastFmt.out[k] = FormatEntityForClipboard(fmtIn[k])
    /\ (Len(fmtTrail) = 2 /\ fmtTrail[1].op = "text" /\ fmtTrail[2].op = "text")
          => fmtTrail[1].out = fmtTrail[2].out

\* The Details field of the row of entity e: what follows Type,Layer, .
DetailsField(row, e) == SubSeq(row, Len(e.Layer) + 4, Len(row))

\* Every double quote of the string is one of a pair.
RECURSIVE QuotesPaired(_)
QuotesPaired(str) ==
    IF str = <<>> THEN TRUE
    ELSE IF str[1] # "\"" THEN QuotesPaired(Tail(str))
    ELSE Len(str) >= 2 /\ str[2] = "\"" /\ QuotesPaired(Tail(Tail(str)))

\* The field is enclosed in double quotes and no double quote inside it
\* stands alone.
WellQuoted(field) ==
    /\ Len(field) >= 2 /\ field[1] = "\"" /\ field[Len(field)] = "\""
    /\ QuotesPaired(SubSeq(field, 2, Len(field) - 1))

\* C25: in every CSV data row, for every variant, the Details field is
\* enclosed in double quotes and every double quote that comes from the
\* entity's data (text value, block name, attribute tag or value) is doubled
\* inside it, so that the field is not ended early.
C25_DetailsQuoted ==
    Called("csv") =>
        \A k \in 1 .. Len(LastFmt.out) - 1 :
            WellQuoted(DetailsField(LastFmt.out[k + 1], KthKept(fmtIn, k)))

\* C25 for the rows of the entities that are not blocks.
C25_DetailsQuotedButBlocks ==
    Called("csv") =>
        \A k \in 1 .. Len(LastFmt.out) - 1 :
            KthKept(fmtIn, k).kind # "Block" =>
               WellQuoted(DetailsField(LastFmt.out[k + 1], KthKept(fmtIn, k)))

\* The tokens of a JSON object, and the token that follows its type key.
Tokens(obj) == {obj[i] : i \in 1 .. Len(obj)}
TypeIn(obj) ==
    obj[(CHOOSE i \in 1 .. Len(obj) : obj[i] = "type") + 1]
\* The type name FormatAsJSON gives a variant.
TypeName(e) ==
    IF e.kind \in {"Line", "Circle", "Text", "Block", "Polyline"} THEN e.kind
    ELSE "Unknown"

C27_IndexValid ==
    /\ []((list.count = 0 => ln.currentIndex = 0)
          /\ (list.count > 0 => ln.currentIndex \in 0 .. list.count - 1))
    /\ [][/\ (HandleKeyPress("Down") /\ ret'.handled) =>
              ln'.currentIndex =
                IF ln.currentIndex < list.count - 1 THEN ln.currentIndex + 1
                ELSE IF ln.wrapEnabled THEN 0 ELSE list.count - 1
          /\ (HandleKeyPress("Up") /\ ret'.handled) =>
              ln'.currentIndex =
                IF ln.currentIndex > 0 THEN ln.currentIndex - 1
                ELSE IF ln.wrapEnabled THEN list.count - 1 ELSE 0]_vars

\* The dataset layer (0-based) rendered at a row of the layers list.
LayerAtRow(row) == layers.items[row + 1].ref

\* C28: Enter on the layers list drills into the layer displayed at the
\* cursor: for every dataset, filter query and cursor position in the
\* filtered list, the layer whose details and entities are shown
\* (currentLayerIndex) is the dataset layer rendered at that row, not the
\* layer at the same position of the unfiltered dataset.
C28_EnterDisplayedLayer ==
    [][(EnterOnLayers /\ HasData /\ ItemCount(layers) > 0) =>
          LET shown == Layers[LayerAtRow(layers.cur) + 1]
          IN /\ currentLayerIndex' = LayerAtRow(layers.cur)
             /\ textView' = LayerLines(shown, Len(shown.Entities))]_vars

\* The layers with the IsOn of layer k (1-based) flipped unless it is frozen.
FlippedAt(ls, k) ==
    IF ls[k].IsFrozen THEN ls ELSE [ls EXCEPT ![k].IsOn = ~ls[k].IsOn]

\* C30: ToggleLayerVisibility(visibleIndex) changes at most one flag: at a
\* valid row of the layers list, filtered or not, it flips the IsOn of the
\* non-frozen layer displayed at that row and leaves every other IsOn, every
\* IsFrozen, the order of the layers and the entities as they were, then
\* rebuilds the list under the query in the search field; without a dataset
\* or with visibleIndex outside the list it changes nothing.
C30_ToggleDisplayedLayer ==
    [][\A i \in -1 .. MaxLayers :
        ToggleLayerVisibility(i) =>
          IF HasData /\ i >= 0 /\ i < ItemCount(layers)
          THEN LET ls == FlippedAt(Layers, LayerAtRow(i) + 1)
               IN /\ data'[1].Layers = ls
                  /\ layers'.items = FilterResult(ls, searchText)
          ELSE UNCHANGED <<data, layers>>]_vars

\* C30 for the layers list whose item texts are cut at the layer's own name
\* and name one layer only.
C30_ToggleWhenNamesResolve ==
    [][\A i \in -1 .. MaxLayers :
        ToggleLayerVisibility(i) =>
          IF HasData /\ i >= 0 /\ i < ItemCount(layers)
          THEN (FirstNamed(Layers, NameOfText(layers.items[i + 1].text))
                   = LayerAtRow(i) + 1) =>
               LET ls == FlippedAt(Layers, LayerAtRow(i) + 1)
               IN /\ data'[1].Layers = ls
                  /\ layers'.items = FilterResult(ls, searchText)
          ELSE UNCHANGED <<data, layers>>]_vars

\* What SelectCategory(c, i) with data is to leave for the category c whose
\* entities are of the given kind: no error, the list filled with every
\* entity of the kind in layer-then-entity order, the pane with the details
\* of entity i when 0 <= i < n and with the count summary otherwise.
CategoryOutcome(c, kind, i) ==
    LET es == OfKind(Flatten(Layers), kind)
        n == Len(es)
    IN /\ ret'.err = NoErr
       /\ layers'.items = CategoryItems([k \in 1 .. n |-> EntityText(es[k])])
       /\ textView' =
             IF i >= 0 /\ i < n
             THEN IF c = "block" THEN BlockLines(es[i + 1]) ELSE TextLines(es[i + 1])
             ELSE IF c = "block" THEN << <<"Blocks Found", n>> >>
                                 ELSE << <<"Texts Found", n>> >>

\* C29: with data, SelectCategory with category block or text and any index,
\* negative, in range or at least the number n of matching entities, returns
\* without error or fault, fills the list with all n matching entities and
\* shows the details of entity index when 0 <= index < n and only the count
\* summary otherwise.
C29_IndexNeverFaults ==
    [][HasData =>
        \A i \in -1 .. MaxLayers :
           /\ SelectCategory("block", i) => CategoryOutcome("block", "Block", i)
           /\ SelectCategory("text", i) => CategoryOutcome("text", "Text", i)]_vars

\* The part of C29 the selectors keep: every index for category block, and
\* every index for category text but a negative one with a text in the data.
C29_IndexButNegativeText ==
    [][HasData =>
        \A i \in -1 .. MaxLayers :
           /\ SelectCategory("block", i) => CategoryOutcome("block", "Block", i)
           /\ (SelectCategory("text", i)
                 /\ (i >= 0 \/ Len(OfKind(Flatten(Layers), "Text")) = 0))
                => CategoryOutcome("text", "Text", i)]_vars

\* C6: SetCurrentIndex(i) on an empty list sets the index to 0 and succeeds
\* for every i; on a non-empty list an i in [0, count) becomes the index and
\* the call succeeds; any other i fails with IndexOutOfRange and the index
\* stays as it was.
C6_SetCurrentIndexContract ==
    [][\A i \in -1 .. MaxItems :
        SetCurrentIndex(i) =>
          /\ list.count = 0 =>
                ln'.currentIndex = 0 /\ ret'.err = NoErr
          /\ (list.count > 0 /\ 0 <= i /\ i < list.count) =>
                ln'.currentIndex = i /\ ret'.err = NoErr
          /\ (list.count > 0 /\ (i < 0 \/ i >= list.count)) =>
                /\ ret'.err = "IndexOutOfRange"
                /\ ln'.currentIndex = ln.currentIndex]_vars

\* C6 witness: a call was refused on a non-empty list whose index is valid.
C6_Witness ==
    ret.err = "IndexOutOfRange" /\ list.count >= 2 /\ ln.currentIndex = 1

\* C7: on a non-empty list with the index c in [0, count-1], Down gives c+1
\* and Up c-1; at the boundary Down from count-1 gives 0 with wrap and
\* count-1 without, Up from 0 gives count-1 with wrap and 0 without.
C7_UpDownStep ==
    [][InRange =>
        /\ HandleKeyPress("Down") =>
             ln'.currentIndex =
               IF ln.currentIndex < list.count - 1 THEN ln.currentIndex + 1
               ELSE IF ln.wrapEnabled THEN 0 ELSE list.count - 1
        /\ HandleKeyPress("Up") =>
             ln'.currentIndex =
               IF ln.currentIndex > 0 THEN ln.currentIndex - 1
               ELSE IF ln.wrapEnabled THEN list.count - 1 ELSE 0]_vars

\* C7 witness: Up was pressed with wrap enabled and the cursor stands on the
\* last of at least three items.
C7_Witness ==
    /\ lastKey = "Up" /\ ln.wrapEnabled
    /\ list.count >= 3 /\ ln.currentIndex = list.count - 1

\* C8: with wrap enabled, N Down presses from index 0 on a list of N > 0
\* items end on index 0 and land on every index exactly once.
C8_DownCycle ==
    (list.count > 0 /\ Len(downRun) = list.count) =>
        /\ ln.currentIndex = 0
        /\ downRun[list.count] = 0
        /\ {downRun[k] : k \in 1 .. list.count} = 0 .. list.count - 1

\* C8 witness: a full run on a list of at least three items.
C8_Witness == list.count >= 3 /\ Len(downRun) = list.count

\* C9: on a non-empty list with current index c, PageDown gives
\* min(c+5, count-1) and PageUp max(c-5, 0), whatever the wrap setting.
C9_PageStep ==
    [][list.count > 0 =>
        /\ HandleKeyPress("PgDn") =>
             ln'.currentIndex = Min(ln.currentIndex + 5, list.count - 1)
        /\ HandleKeyPress("PgUp") =>
             ln'.currentIndex = Max(ln.currentIndex - 5, 0)]_vars

\* C10: HandleKeyPress reports handled = false and changes neither the index
\* nor the wrap setting when the list is empty or the key is none of Down, Up,
\* PageDown, PageUp, Home, End; for those six keys on a non-empty list it
\* reports handled = true.
C10_HandledFrame ==
    [][\A k \in Keys :
        HandleKeyPress(k) =>
          /\ (list.count = 0 \/ k \notin ListKeys) =>
                ret'.handled = FALSE /\ ln' = ln
          /\ (list.count > 0 /\ k \in ListKeys) => ret'.handled = TRUE]_vars

\* C10 witness: Home was pressed on an empty list while the index was not 0.
C10_Witness ==
    lastKey = "Home" /\ list.count = 0 /\ ln.currentIndex > 0 /\ ~ret.handled

====
